---- MODULE Spec2Model ----
(***************************************************************************)
(* FhevmClient (packages/fhevm-sdk/src/index.js): the client facade over   *)
(* the FHE backend (fhevmjs) and the chain client (ethers).                *)
(*                                                                         *)
(* One client object is modelled.  Every async method is cut at its await  *)
(* points: the code between two awaits runs atomically (JavaScript runs to *)
(* completion), the settlement of an awaited collaborator promise is a     *)
(* separate step whose outcome (fulfilled / rejected) is chosen by the     *)
(* environment.  When an invocation settles, its record is placed in       *)
(* `done`; the caller's continuation (a microtask, which runs before any   *)
(* other collaborator settlement is delivered) observes it.                *)
(*                                                                         *)
(* Spec is the life of one client; SpecCreate the clients made by          *)
(* createFhevmClient from every shape of config; SpecConcurrent a client   *)
(* whose callers overlap encrypt and userDecrypt; SpecProvider and         *)
(* FairSpecProvider the FhevmProvider component; SpecHooks one instance of *)
(* useEncrypt, useDecrypt or useContractWrite.                             *)
(***************************************************************************)
EXTENDS Integers, Sequences, FiniteSets, TLC

\* client : the FhevmClient's fields (instance, provider, signer, chainId,
\*          initialized)
\* inits  : the initialize invocations suspended at an await, by invocation
\*          id; they may overlap each other and the invocation in `call`
\* call   : the invocation of another async method (encrypt, userDecrypt,
\*          publicDecrypt, getAddress) suspended at an await; the caller awaits
\*          each of these before it issues the next
\* nInit  : the number of initialize invocations made so far
\* done   : the invocation that has just settled, until its caller observes it
\* initOk : history: some initialize invocation has returned successfully
\* parked : a second invocation of encrypt or userDecrypt suspended at an await
\*          at the same time as the one in `call`, for callers that do not
\*          await one call before they issue the next
\* prov   : the FhevmProvider component: its React state { client, loading,
\*          error }, whether it is mounted, and the runs of its effect
\* hook   : one instance of a hook wrapper (useEncrypt, useDecrypt or
\*          useContractWrite): its React state and the calls issued through it
\* addrHook : one instance of the useAddress hook under the FhevmProvider: its
\*          React state { address, loading, error } and the runs of its effect
\* readHook : one instance of the useContractRead hook: its inputs, its React
\*          state { data, loading, error }, its interval timer and its reads
\* farm   : the deployed FarmerSubsidy contract: its storage and balance, the
\*          block timestamp, how the last transaction sent to it ended ("ok",
\*          or the reason it reverted with), the SubsidyDistributed events it
\*          has emitted, and, as history, the period that was current when
\*          each decryption request was made
VARIABLES client, inits, call, nInit, done, initOk, parked, prov, hook, addrHook, readHook, farm

vars == <<client, inits, call, nInit, done, initOk, parked, prov, hook, addrHook, readHook, farm>>
\* the client and its invocations; and, for each component, all the rest
clientVars == <<client, inits, call, nInit, done, initOk, parked>>
outsideClient == <<prov, hook, addrHook, readHook, farm>>
outsideProvider == <<clientVars, hook, addrHook, readHook, farm>>
outsideHook == <<clientVars, prov, addrHook, readHook, farm>>
outsideAddress == <<clientVars, hook, readHook, farm>>
outsideRead == <<clientVars, prov, hook, addrHook, farm>>
outsideFarm == <<clientVars, prov, hook, addrHook, readHook>>

\* ---------------------------------------------------------------- bounds
\* initialize invocations made on the client over its life
MaxInits == 2
\* runs of the FhevmProvider effect (the mount and the config changes)
MaxRuns == 2
\* calls issued through one hook instance
MaxCalls == 3
\* reads issued through one useContractRead instance
MaxReads == 3
\* changes of the props of one useContractRead instance
MaxChanges == 1
\* distribution periods of the FarmerSubsidy contract that are started
MaxPeriods == 2
\* decryption requests the FarmerSubsidy contract makes
MaxRequests == 2
\* the block timestamps the FarmerSubsidy contract is called at
MaxTime == 1
\* the ether the FarmerSubsidy contract is sent over its life, its initial
\* budget included
MaxFunds == 3400

InitIds == 1..MaxInits
RunIds == 1..MaxRuns
CallIds == 1..MaxCalls

\* ---------------------------------------------------------------- values
\* JavaScript null / undefined
Null == [kind |-> "null"]
Undefined == [kind |-> "undefined"]
\* this.chainId = null
NoChainId == 0

IsNullish(x) == x = Null \/ x = Undefined
\* the empty string, and the values `||` takes its right operand for
EmptyString == [kind |-> "string", value |-> <<"">>]
IsFalsy(x) == IsNullish(x) \/ x = EmptyString

\* a rejected promise / thrown Error
Err(name, detail) == [kind |-> "error", name |-> name, detail |-> detail]
Ok(val) == [kind |-> "ok", val |-> val]

\* new Error('FHEVM SDK not initialized. Call initialize() first.')
NotInitializedError == Err("Error", <<"FHEVM SDK not initialized. Call initialize() first.">>)
\* new Error('Signer not available. Initialize provider first.')
SignerNotAvailableError == Err("Error", <<"Signer not available. Initialize provider first.">>)
\* new Error(`Unsupported encryption type: ${type}`)
UnsupportedTypeError(type) == Err("Error", <<"Unsupported encryption type: ", type>>)
\* the engine's TypeError on a property read of null / undefined
NullDerefError(prop) == Err("TypeError", <<"Cannot read properties of null", prop>>)
\* a failure produced by a collaborator call
CollabError(fn, code) == Err("CollaboratorError", <<fn, code>>)

\* the reasons a collaborator call can fail with
FailureCodes(fn) == IF fn = "signTypedData" THEN {"ACTION_REJECTED", "NETWORK_ERROR"}
                    ELSE {"NETWORK_ERROR"}
\* the outcomes of an awaited collaborator call
Outcomes(fn) == {"ok"} \cup FailureCodes(fn)

\* one collaborator call, as the collaborator sees it: the function, the
\* object it is called on, its arguments, and how it ended ("pending" until
\* its promise settles, then "ok" or the failure's code)
Call(fn, on, args) == [fn |-> fn, on |-> on, args |-> args, res |-> "pending"]
\* a synchronous collaborator call with its outcome
SyncCall(fn, on, args, o) == [fn |-> fn, on |-> on, args |-> args, res |-> o]
\* the call an invocation is suspended on, and the log once it has settled
Awaited(inv) == inv.log[Len(inv.log)]
Delivered(inv, o) == [inv EXCEPT !.log[Len(inv.log)].res = o]

\* ---------------------------------------------------------------- inputs
RpcUrl == [kind |-> "string", value |-> <<"https://rpc.example/1">>]
Injected == [kind |-> "object", request |-> TRUE, name |-> "window.ethereum"]
Prebuilt == [kind |-> "object", request |-> FALSE, name |-> "provider"]
CustomGateway == [kind |-> "string", value |-> <<"https://gw.example">>]
CustomAcl == [kind |-> "string", value |-> <<"0xACL">>]

Config(p, c, g, a) == [provider |-> p, chainId |-> c, gatewayUrl |-> g, aclAddress |-> a]

\* the configs the lifecycle specification draws from
Configs ==
    { Config(RpcUrl, 11155111, Undefined, Undefined),
      Config(Injected, 1, CustomGateway, CustomAcl),
      Config(Undefined, 1, Undefined, Undefined) }

Values == {7, 42}
TypeLabels == {"uint8", "uint16", "uint32", "uint64", "address", "bool"}
OtherLabels == {"uint128"}
\* the type argument: a label, or undefined when the caller omits it
TypeArgs == {[kind |-> "string", value |-> <<t>>] : t \in TypeLabels \cup OtherLabels} \cup {Undefined}
ContractAddresses == {"0xC0"}
FunctionNames == {"requestSubsidyDecryption"}
Abi == "abi"
\* the positional arguments publicDecrypt is given: none (the default), or one
PublicArgs == {<<>>, <<7>>}

\* ---------------------------------------------------------------- collaborators
\* new JsonRpcProvider(url), new BrowserProvider(injected): a fresh object per call
JsonRpcProvider(url, id) == [kind |-> "JsonRpcProvider", of |-> url, by |-> id]
BrowserProvider(eth, id) == [kind |-> "BrowserProvider", of |-> eth, by |-> id]
\* provider.getSigner(): a fresh signer bound to the provider
SignerOf(provider, id) == [kind |-> "signer", provider |-> provider, by |-> id]
\* createFhevmInstance(params): a fresh backend instance
InstanceOf(params, id) == [kind |-> "instance", params |-> params, by |-> id]
\* instance.encryptN(value): ciphertext bytes
Ciphertext(fn, value) == [kind |-> "ciphertext", fn |-> fn, value |-> value]
\* instance.generateToken({verifyingContract}) -> {signature, publicKey}
Token(addr) == [signature |-> [kind |-> "tokenSignature", verifyingContract |-> addr],
                publicKey |-> [kind |-> "publicKey", verifyingContract |-> addr]]
\* instance.createEIP712(ciphertext, publicKey) -> {domain, types, message}
EIP712(ct, pk) == [domain |-> [kind |-> "domain"], types |-> [kind |-> "types"],
                   message |-> [ciphertext |-> ct, publicKey |-> pk]]
\* signer.signTypedData(domain, types, message)
Signature(signer, eip) == [kind |-> "signature", signer |-> signer, message |-> eip.message]
\* instance.decrypt(ciphertext, signedData): the backend inverts its encrypt
Plaintext(ct) == ct.value
\* new Contract(address, abi, signer)
Contract(address, abi, signer) == [kind |-> "contract", address |-> address, abi |-> abi, signer |-> signer]
\* contract[functionName](...args) -> tx ; tx.wait() -> receipt
Tx(contract, fn, args) == [kind |-> "tx", contract |-> contract, fn |-> fn, args |-> args]
Receipt(tx) == [kind |-> "receipt", tx |-> tx]
\* signer.getAddress()
AddressOf(signer) == [kind |-> "address", signer |-> signer]

Handles == {Ciphertext("encrypt32", v) : v \in Values}

\* ---------------------------------------------------------------- the client
\* constructor()
NewClient ==
    [instance |-> Null, provider |-> Null, signer |-> Null,
     chainId |-> NoChainId, initialized |-> FALSE]

\* a free slot, no invocation settled and unobserved
Idle == [op |-> "idle"]
None == [op |-> "none"]

\* ---------------------------------------------------------------- React state
\* FhevmProvider before its effect has run: useState(null), useState(true),
\* useState(null); no run of the effect yet
NewProvider ==
    [state |-> [client |-> Null, loading |-> TRUE, error |-> Null],
     mounted |-> TRUE, nRuns |-> 0, runs |-> [r \in RunIds |-> Idle]]

HookNames == {"useEncrypt", "useDecrypt", "useContractWrite"}
\* a hook wrapper as first rendered: useState(false), useState(null) and, in
\* useContractWrite, useState(null) for data; no call issued yet.  calls is
\* where each call of the callback stands, results what its caller got, and
\* issued the calls that reached the client (the contract)
NewHook(k) ==
    [kind |-> k, flag |-> FALSE, error |-> Null, data |-> Null,
     calls |-> [c \in CallIds |-> "idle"],
     results |-> [c \in CallIds |-> Null],
     issued |-> {}]

\* the runs of the useAddress effect: the mount and one for every client the
\* provider exposes after it
AddressRunIds == 1..(MaxRuns + 1)
\* useAddress as first rendered: useState(null), useState(true),
\* useState(null); its effect has not run yet
NewAddress ==
    [state |-> [address |-> Null, loading |-> TRUE, error |-> Null],
     mounted |-> TRUE, nRuns |-> 0, runs |-> [r \in AddressRunIds |-> Idle]]

\* the reads issued through one useContractRead instance
ReadIds == 1..MaxReads
\* what a render of the component hands to useContractRead: contract,
\* functionName, args, watch, and whether args is the same array on every
\* render (fresh = FALSE) or a new one each time, as with the default
\* `args = []` or an array literal in the call (fresh = TRUE)
ReadInputs(contract, functionName, args, watch, fresh) ==
    [contract |-> contract, functionName |-> functionName, args |-> args,
     watch |-> watch, fresh |-> fresh]
\* useContractRead before its first render: useState(null), useState(true),
\* useState(null); no effect has run, no interval is set, no read is issued
NewRead(inputs) ==
    [state |-> [data |-> Null, loading |-> TRUE, error |-> Null],
     inputs |-> inputs, mounted |-> TRUE,
     dirty |-> TRUE, effect |-> Null, changes |-> 0,
     timer |-> Null,
     nReads |-> 0,
     reads |-> [k \in ReadIds |-> Idle]]

\* ---------------------------------------------------------------- initial state
InitClient ==
    /\ client = NewClient
    /\ inits = [i \in InitIds |-> Idle]
    /\ call = Idle
    /\ nInit = 0
    /\ done = None
    /\ initOk = FALSE
    /\ parked = Idle

\* ---------------------------------------------------------------- FarmerSubsidy state
\* the accounts that send transactions to the FarmerSubsidy contract: the one
\* that deploys it and the ones that register as farmers; and address(0)
Farmers == {"0xF1", "0xF2"}
Deployer == "0xA0"
Accounts == {Deployer} \cup Farmers
\* the senders of the functions under onlySubsidyAuthority: the deployer and
\* one other account; and the sender of the oracle's callback and of ether
Callers == {Deployer, "0xF1"}
Relayer == "0xF2"
AddressZero == "0x00"
\* the distribution periods and the decryption request ids
PeriodIds == 1..MaxPeriods
RequestIds == 1..MaxRequests
\* an encrypted value, by the plaintext it holds, and the handle of a mapping
\* entry never written (bytes32(0))
Encrypted(type, v) == [kind |-> type, set |-> TRUE, plain |-> v]
NoHandle == [kind |-> "euint", set |-> FALSE, plain |-> 0]
\* mapping entries never written; startTime and registrationTime, which
\* only the view functions read, are left out
NoPeriod ==
    [endTime |-> 0, totalBudget |-> 0, distributedAmount |-> 0,
     beneficiaryCount |-> 0, isActive |-> FALSE, distributionCompleted |-> FALSE]
NoFarmer ==
    [encryptedFarmSize |-> NoHandle, encryptedCropYield |-> NoHandle,
     encryptedIncomeLevel |-> NoHandle, isRegistered |-> FALSE,
     hasReceivedSubsidy |-> FALSE, farmerAddress |-> AddressZero]
\* the contract after constructor(_initialBudget) sent by `deployer`: its
\* storage, the ciphertexts it has asked the decryption oracle for, and its
\* balance
Deployed(deployer, initialBudget) ==
    [subsidyAuthority |-> deployer,
     currentDistributionPeriod |-> 1,
     totalSubsidyBudget |-> initialBudget,
     distributionPeriods |-> [p \in PeriodIds |-> NoPeriod],
     farmers |-> [a \in Accounts |-> NoFarmer],
     encryptedSubsidyAmounts |-> [p \in PeriodIds |-> [a \in Accounts |-> NoHandle]],
     registeredFarmers |-> <<>>,
     decryptionRequests |-> [q \in RequestIds |-> AddressZero],
     requested |-> [q \in RequestIds |-> NoHandle],
     nRequests |-> 0,
     balance |-> 0]
NewFarm ==
    [state |-> Deployed(Deployer, 0),
     now |-> 0,
     last |-> "ok",
     distributed |-> <<>>,
     requestedIn |-> [q \in RequestIds |-> 0]]

Init ==
    /\ InitClient
    /\ prov = NewProvider
    /\ hook = NewHook("useEncrypt")
    /\ addrHook = NewAddress
    /\ readHook = NewRead(ReadInputs(Null, Undefined, <<>>, FALSE, FALSE))
    /\ farm = NewFarm

\* the suspended invocation: its arguments, the await it is parked at, its
\* local constants, the collaborator calls it has issued so far, and whether
\* the client was initialized when it was called
Invocation(op, args, pc, loc, log, init0) ==
    [op |-> op, args |-> args, pc |-> pc, loc |-> loc, log |-> log, init0 |-> init0]

\* the settled invocation as its caller sees it
Settled(inv, out) ==
    [op |-> inv.op, args |-> inv.args, loc |-> inv.loc, log |-> inv.log,
     init0 |-> inv.init0, out |-> out]

\* initialize has settled and its caller has not yet run
SettledInitialize == done /= None /\ done.op = "initialize"

CanStart == done = None
CanSuspend == call = Idle

\* the invocation parks at its first await
Suspend(inv) ==
    /\ UNCHANGED <<parked, outsideClient>>
    /\ call' = inv
    /\ done' = None
    /\ inits' = inits
\* the suspended invocation moves to its next await
Resume(inv) ==
    /\ UNCHANGED <<parked, outsideClient>>
    /\ call' = inv
    /\ done' = None
    /\ inits' = inits
\* the suspended invocation settles
Finish(inv, out) ==
    /\ UNCHANGED <<parked, outsideClient>>
    /\ call' = Idle
    /\ done' = Settled(inv, out)
    /\ inits' = inits
\* the invocation settles before its first await
FinishNow(inv, out) ==
    /\ UNCHANGED <<parked, outsideClient>>
    /\ done' = Settled(inv, out)
    /\ UNCHANGED <<inits, call>>
\* the same for the initialize invocation i
ResumeInit(i, inv) ==
    /\ UNCHANGED <<parked, outsideClient>>
    /\ inits' = [inits EXCEPT ![i] = inv]
    /\ done' = None
    /\ call' = call
FinishInit(i, inv, out) ==
    /\ UNCHANGED <<parked, outsideClient>>
    /\ inits' = [inits EXCEPT ![i] = Idle]
    /\ done' = Settled(inv, out)
    /\ call' = call

\* the caller's continuation has received the settled result
Observe ==
    /\ done /= None
    /\ done' = None
    /\ UNCHANGED <<client, inits, call, nInit, initOk, parked, outsideClient>>

\* ---------------------------------------------------------------- initialize
\* `provider.request` is read of a provider that is not a string: a missing
\* provider throws there
ProviderReadThrows(p) == IsNullish(p)

\* the constructor initialize calls for the provider input, "none" when the
\* input is used as it is
ProviderConstructor(p) ==
    IF p.kind = "string" THEN "JsonRpcProvider"
    ELSE IF p.request THEN "BrowserProvider"
    ELSE "none"

\* the provider stored by invocation id for provider input p
ResolveProvider(p, id) ==
    IF p.kind = "string" THEN JsonRpcProvider(p, id)
    ELSE IF p.request THEN BrowserProvider(p, id)
    ELSE p

\* a default gateway that does not depend on the chain
DefaultGatewayFixed(chainId) == [kind |-> "string", value |-> <<"https://gateway.fhevm.io/", 1>>]

\* `https://gateway.fhevm.io/${chainId}`
DefaultGatewayUrl(chainId) == [kind |-> "string", value |-> <<"https://gateway.fhevm.io/", chainId>>]
ZeroAddress == [kind |-> "string", value |-> <<"0x0000000000000000000000000000000000000000">>]

\* the argument of createFhevmInstance
BackendParams(cfg, network) ==
    [chainId |-> cfg.chainId,
     network |-> network,
     gatewayUrl |-> IF IsFalsy(cfg.gatewayUrl) THEN DefaultGatewayUrl(cfg.chainId) ELSE cfg.gatewayUrl,
     aclAddress |-> IF IsFalsy(cfg.aclAddress) THEN ZeroAddress ELSE cfg.aclAddress]

\* the value initialize resolves to: the client itself
This == [kind |-> "this"]

\* a handler that resets the client when initialize fails
CatchClientResetsFlag(c, error) == [c EXCEPT !.initialized = FALSE]
\* a handler that logs the failure and lets initialize return
CatchSwallows(error) == Ok(This)

\* a handler that drops the signer when initialize fails
CatchClientClearsSigner(c, error) == [c EXCEPT !.signer = Null]

\* catch (error) { console.error(...); throw error; }: the client's fields
\* after the handler, and what the invocation settles with
CatchClient(c, error) == c
CatchOutcome(error) == error

\* initialize, called on a client whose fields are c, up to its first await
\* (lines 34-46)
StartInitializeOn(c, cfg) ==
    /\ CanStart
    /\ nInit < MaxInits
    /\ nInit' = nInit + 1
    /\ initOk' = initOk
    /\ LET id == nInit + 1
           inv == Invocation("initialize", <<cfg>>, "start", [id |-> id, before |-> c], <<>>, c.initialized)
       IN IF ProviderReadThrows(cfg.provider)
          THEN LET e == NullDerefError("request")
               IN /\ client' = CatchClient(c, e)
                  /\ FinishNow(inv, CatchOutcome(e))
          ELSE \E o \in Outcomes(ProviderConstructor(cfg.provider)) :
               IF o /= "ok" /\ ProviderConstructor(cfg.provider) /= "none"
               THEN LET e == CollabError(ProviderConstructor(cfg.provider), o)
                    IN /\ client' = CatchClient(c, e)
                       /\ FinishNow([inv EXCEPT !.log = <<SyncCall(ProviderConstructor(cfg.provider), Null, <<cfg.provider>>, o)>>],
                                    CatchOutcome(e))
               ELSE LET p == ResolveProvider(cfg.provider, id)
                    IN /\ o = "ok"
                       /\ client' = [c EXCEPT !.provider = p]
                       /\ ResumeInit(id, [inv EXCEPT !.pc = "awaitSigner",
                                              !.log = <<Call("getSigner", p, <<>>)>>])

\* initialize called on the client
StartInitialize(cfg) == StartInitializeOn(client, cfg)

\* the getSigner promise settles; initialize runs to its second await (lines 46-55)
InitializeSignerSettles(i) ==
    /\ done = None
    /\ inits[i].op = "initialize" /\ inits[i].pc = "awaitSigner"
    /\ UNCHANGED <<nInit, initOk>>
    /\ \E o \in Outcomes("getSigner") :
       LET inv == Delivered(inits[i], o)
           cfg == inv.args[1]
       IN IF o /= "ok"
          THEN LET e == CollabError("getSigner", o)
               IN /\ client' = CatchClient(client, e)
                  /\ FinishInit(i, inv, CatchOutcome(e))
          ELSE LET sg == SignerOf(inv.log[1].on, inv.loc.id)
                   c1 == [client EXCEPT !.signer = sg, !.chainId = cfg.chainId]
                   params == BackendParams(cfg, c1.provider)
               IN /\ client' = c1
                  /\ ResumeInit(i, [inv EXCEPT !.pc = "awaitInstance",
                                            !.log = Append(@, Call("createFhevmInstance", Null, <<params>>))])

\* the createFhevmInstance promise settles; initialize returns (lines 50-58)
InitializeInstanceSettles(i) ==
    /\ done = None
    /\ inits[i].op = "initialize" /\ inits[i].pc = "awaitInstance"
    /\ nInit' = nInit
    /\ \E o \in Outcomes("createFhevmInstance") :
       LET inv == Delivered(inits[i], o)
       IN IF o /= "ok"
          THEN LET e == CollabError("createFhevmInstance", o)
               IN /\ client' = CatchClient(client, e)
                  /\ initOk' = (initOk \/ CatchOutcome(e).kind = "ok")
                  /\ FinishInit(i, inv, CatchOutcome(e))
          ELSE /\ client' = [client EXCEPT !.instance = InstanceOf(inv.log[2].args[1], inv.loc.id),
                                           !.initialized = TRUE]
               /\ initOk' = TRUE
               /\ FinishInit(i, inv, Ok(This))

\* ---------------------------------------------------------------- accessors
\* an accessor that reports a signer as initialization
IsInitializedBySigner(c) == c.signer /= Null

\* isInitialized()
IsInitializedResult(c) == c.initialized

IsInitialized ==
    /\ CanStart
    /\ FinishNow(Invocation("isInitialized", <<>>, "start", <<>>, <<>>, client.initialized),
                 Ok(IsInitializedResult(client)))
    /\ UNCHANGED <<client, nInit, initOk>>

\* a guard on the signer, as createContract has it
GetInstanceChecksSigner(c) == c.signer = Null

\* getInstance(): whether it throws
GetInstanceThrows(c) == ~c.initialized

\* getSigner()
GetSigner(c) == c.signer

\* ---------------------------------------------------------------- encrypt
\* a default parameter of another width
TypeOrDefaultWide(typeArg) == IF typeArg = Undefined THEN "uint64" ELSE typeArg.value[1]

\* the default parameter: type = 'uint32'
TypeOrDefault(typeArg) == IF typeArg = Undefined THEN "uint32" ELSE typeArg.value[1]

\* a switch whose uint64 case calls the 32-bit method
EncryptMethodNarrow(type) ==
    CASE type = "uint8" -> "encrypt8"
      [] type = "uint16" -> "encrypt16"
      [] type = "uint32" -> "encrypt32"
      [] type = "uint64" -> "encrypt32"
      [] type = "address" -> "encryptAddress"
      [] type = "bool" -> "encryptBool"
      [] OTHER -> "none"

\* the switch: the backend method of a label, "none" for the default branch
EncryptMethod(type) ==
    CASE type = "uint8" -> "encrypt8"
      [] type = "uint16" -> "encrypt16"
      [] type = "uint32" -> "encrypt32"
      [] type = "uint64" -> "encrypt64"
      [] type = "address" -> "encryptAddress"
      [] type = "bool" -> "encryptBool"
      [] OTHER -> "none"

\* encrypt up to the backend call (lines 102-121)
StartEncrypt(value, typeArg) ==
    /\ CanStart
    /\ UNCHANGED <<client, nInit, initOk>>
    /\ LET inv == Invocation("encrypt", <<value, typeArg>>, "start", <<>>, <<>>, client.initialized)
           type == TypeOrDefault(typeArg)
           m == EncryptMethod(type)
       IN IF GetInstanceThrows(client) THEN FinishNow(inv, NotInitializedError)
          ELSE IF m = "none" THEN FinishNow(inv, UnsupportedTypeError(type))
          ELSE IF client.instance = Null THEN FinishNow(inv, NullDerefError(m))
          ELSE /\ CanSuspend
               /\ Suspend([inv EXCEPT !.pc = "awaitEncrypt",
                                      !.loc = [instance |-> client.instance],
                                      !.log = <<Call(m, client.instance, <<value>>)>>])

\* the backend's promise settles and encrypt settles with it
EncryptSettles ==
    /\ done = None
    /\ call.op = "encrypt" /\ call.pc = "awaitEncrypt"
    /\ UNCHANGED <<client, nInit, initOk>>
    /\ LET c == Awaited(call)
       IN \E o \in Outcomes(c.fn) :
          Finish(Delivered(call, o), IF o = "ok" THEN Ok(Ciphertext(c.fn, c.args[1]))
                                     ELSE CollabError(c.fn, o))

\* ---------------------------------------------------------------- userDecrypt
\* userDecrypt up to its first await (lines 129-135)
StartUserDecrypt(contractAddress, ciphertext) ==
    /\ CanStart
    /\ UNCHANGED <<client, nInit, initOk>>
    /\ LET inv == Invocation("userDecrypt", <<contractAddress, ciphertext>>, "start", <<>>, <<>>, client.initialized)
       IN IF GetInstanceThrows(client) THEN FinishNow(inv, NotInitializedError)
          ELSE IF client.instance = Null THEN FinishNow(inv, NullDerefError("generateToken"))
          ELSE /\ CanSuspend
               /\ Suspend([inv EXCEPT !.pc = "awaitToken",
                                      !.loc = [instance |-> client.instance, signer |-> GetSigner(client)],
                                      !.log = <<Call("generateToken", client.instance,
                                                     <<[verifyingContract |-> contractAddress]>>)>>])

\* a handler that goes on to decrypt when the signature request is rejected
UserDecryptIgnoresRejection(inv, o) ==
    IF Awaited(inv).fn = "signTypedData"
    THEN [settle |-> FALSE, pc |-> "awaitDecrypt",
          log |-> Append(inv.log, Call("decrypt", inv.loc.instance, <<inv.args[2], Null>>))]
    ELSE [settle |-> TRUE, log |-> inv.log, out |-> CollabError(Awaited(inv).fn, o)]

\* a handler that asks the signer a second time when the signature request
\* is rejected
UserDecryptRetriesSignature(inv, o) ==
    IF Awaited(inv).fn = "signTypedData" /\ Len(inv.log) = 3
    THEN [settle |-> FALSE, pc |-> "awaitSign",
          log |-> Append(inv.log, Call("signTypedData", inv.loc.signer, inv.log[3].args))]
    ELSE [settle |-> TRUE, log |-> inv.log, out |-> CollabError(Awaited(inv).fn, o)]

\* an awaited step of userDecrypt rejects with code o: nothing catches it, the
\* invocation rejects with the collaborator's failure
UserDecryptRejected(inv, o) ==
    [settle |-> TRUE, log |-> inv.log, out |-> CollabError(Awaited(inv).fn, o)]

\* a return that converts the plaintext to a narrower integer
UserDecryptReturnsNarrowed(decrypted) == decrypted % 16

\* return decrypted;
UserDecryptReturn(decrypted) == decrypted

\* a version that reads this.instance and this.signer again at every step
UserDecryptNextReadsClient(inv, o, o2) ==
    LET addr == inv.args[1]
        ct == inv.args[2]
        loc == [instance |-> client.instance, signer |-> client.signer]
    IN IF o /= "ok" THEN UserDecryptRejected(inv, o)
       ELSE CASE inv.pc = "awaitToken" ->
                   LET tok == Token(addr)
                       eip == EIP712(ct, tok.publicKey)
                       log1 == Append(inv.log, SyncCall("createEIP712", loc.instance, <<ct, tok.publicKey>>, o2))
                   IN IF o2 /= "ok"
                      THEN [settle |-> TRUE, log |-> log1, out |-> CollabError("createEIP712", o2)]
                      ELSE [settle |-> FALSE, pc |-> "awaitSign",
                            log |-> Append(log1, Call("signTypedData", loc.signer,
                                                      <<eip.domain, eip.types, eip.message>>))]
              [] inv.pc = "awaitSign" ->
                   LET eip == EIP712(ct, Token(addr).publicKey)
                       signedData == Signature(loc.signer, eip)
                   IN [settle |-> FALSE, pc |-> "awaitDecrypt",
                       log |-> Append(inv.log, Call("decrypt", loc.instance, <<ct, signedData>>))]
              [] inv.pc = "awaitDecrypt" ->
                   [settle |-> TRUE, log |-> inv.log, out |-> Ok(Plaintext(ct))]

\* what userDecrypt does when the awaited step settles with outcome o: the
\* next collaborator call it issues and the await it parks at, or the value it
\* settles with.  o2 is the outcome of the synchronous createEIP712 call.
UserDecryptNext(inv, o, o2) ==
    LET addr == inv.args[1]
        ct == inv.args[2]
    IN IF o /= "ok" THEN UserDecryptRejected(inv, o)
       ELSE CASE inv.pc = "awaitToken" ->
                   LET tok == Token(addr)
                       eip == EIP712(ct, tok.publicKey)
                       log1 == Append(inv.log, SyncCall("createEIP712", inv.loc.instance, <<ct, tok.publicKey>>, o2))
                   IN IF o2 /= "ok"
                      THEN [settle |-> TRUE, log |-> log1, out |-> CollabError("createEIP712", o2)]
                      ELSE IF inv.loc.signer = Null
                      THEN [settle |-> TRUE, log |-> log1, out |-> NullDerefError("signTypedData")]
                      ELSE [settle |-> FALSE, pc |-> "awaitSign",
                            log |-> Append(log1, Call("signTypedData", inv.loc.signer,
                                                      <<eip.domain, eip.types, eip.message>>))]
              [] inv.pc = "awaitSign" ->
                   LET eip == EIP712(ct, Token(addr).publicKey)
                       signedData == Signature(inv.loc.signer, eip)
                   IN [settle |-> FALSE, pc |-> "awaitDecrypt",
                       log |-> Append(inv.log, Call("decrypt", inv.loc.instance, <<ct, signedData>>))]
              [] inv.pc = "awaitDecrypt" ->
                   [settle |-> TRUE, log |-> inv.log, out |-> Ok(UserDecryptReturn(Plaintext(ct)))]

\* an awaited step of userDecrypt settles (lines 133-147)
UserDecryptStep ==
    /\ done = None
    /\ call.op = "userDecrypt"
    /\ UNCHANGED <<client, nInit, initOk>>
    /\ \E o \in Outcomes(Awaited(call).fn) :
       \E o2 \in (IF call.pc = "awaitToken" /\ o = "ok" THEN Outcomes("createEIP712") ELSE {"ok"}) :
       LET inv == Delivered(call, o)
           n == UserDecryptNext(inv, o, o2)
       IN IF n.settle
          THEN Finish([inv EXCEPT !.log = n.log], n.out)
          ELSE Resume([inv EXCEPT !.pc = n.pc, !.log = n.log])

\* ---------------------------------------------------------------- publicDecrypt
\* a contract binding the caller holds
BoundContracts == {Contract(a, Abi, [kind |-> "signer", name |-> "caller's"]) : a \in ContractAddresses}

\* publicDecrypt up to its first await (lines 157-158)
StartPublicDecrypt(contract, functionName, args) ==
    /\ CanStart /\ CanSuspend
    /\ UNCHANGED <<client, nInit, initOk>>
    /\ Suspend(Invocation("publicDecrypt", <<contract, functionName, args>>, "awaitTx", <<>>,
                          <<Call(functionName, contract, args)>>, client.initialized))

\* a version that returns a receipt as soon as the transaction is sent
PublicDecryptSkipsWait(inv, o) ==
    LET tx == Tx(inv.args[1], inv.args[2], inv.args[3])
    IN IF o /= "ok" THEN [settle |-> TRUE, log |-> inv.log, out |-> CollabError(Awaited(inv).fn, o)]
       ELSE [settle |-> TRUE, log |-> inv.log, out |-> Ok(Receipt(tx))]

\* what publicDecrypt does when the awaited step settles with outcome o:
\* after the transaction it calls wait and parks there, after the wait it
\* returns the receipt; a rejection is not caught (lines 158-160)
PublicDecryptNext(inv, o) ==
    LET tx == Tx(inv.args[1], inv.args[2], inv.args[3])
    IN IF o /= "ok" THEN [settle |-> TRUE, log |-> inv.log, out |-> CollabError(Awaited(inv).fn, o)]
       ELSE IF inv.pc = "awaitTx"
       THEN [settle |-> FALSE, pc |-> "awaitWait", log |-> Append(inv.log, Call("wait", tx, <<>>))]
       ELSE [settle |-> TRUE, log |-> inv.log, out |-> Ok(Receipt(tx))]

\* the transaction promise, then the wait promise, settles (lines 158-160)
PublicDecryptStep ==
    /\ done = None
    /\ call.op = "publicDecrypt"
    /\ UNCHANGED <<client, nInit, initOk>>
    /\ \E o \in Outcomes(Awaited(call).fn) :
       LET inv == Delivered(call, o)
           n == PublicDecryptNext(inv, o)
       IN IF n.settle
          THEN Finish([inv EXCEPT !.log = n.log], n.out)
          ELSE Resume([inv EXCEPT !.pc = n.pc, !.log = n.log])

\* ---------------------------------------------------------------- createContract
\* if (!this.signer)
CreateContractThrows(c) == c.signer = Null

\* createContract (lines 169-174)
CreateContract(address, abi) ==
    /\ CanStart
    /\ UNCHANGED <<client, nInit, initOk>>
    /\ LET inv == Invocation("createContract", <<address, abi>>, "start", <<>>, <<>>, client.initialized)
       IN IF CreateContractThrows(client) THEN FinishNow(inv, SignerNotAvailableError)
          ELSE FinishNow([inv EXCEPT !.log = <<SyncCall("Contract", Null, <<address, abi, client.signer>>, "ok")>>],
                         Ok(Contract(address, abi, client.signer)))

\* ---------------------------------------------------------------- getAddress
\* getAddress up to its await (lines 180-182)
StartGetAddress ==
    /\ CanStart
    /\ UNCHANGED <<client, nInit, initOk>>
    /\ LET inv == Invocation("getAddress", <<>>, "start", <<>>, <<>>, client.initialized)
           signer == GetSigner(client)
       IN IF signer = Null THEN FinishNow(inv, NullDerefError("getAddress"))
          ELSE /\ CanSuspend
               /\ Suspend([inv EXCEPT !.pc = "awaitAddress",
                                      !.loc = [signer |-> signer],
                                      !.log = <<Call("getAddress", signer, <<>>)>>])

\* the signer's promise settles and getAddress settles with it (line 182)
GetAddressSettles ==
    /\ done = None
    /\ call.op = "getAddress" /\ call.pc = "awaitAddress"
    /\ UNCHANGED <<client, nInit, initOk>>
    /\ \E o \in Outcomes("getAddress") :
       Finish(Delivered(call, o), IF o = "ok" THEN Ok(AddressOf(call.loc.signer))
                                  ELSE CollabError("getAddress", o))

\* ---------------------------------------------------------------- concurrent calls
\* two invocations are suspended at awaits and either awaited promise can
\* settle next: the one the next settlement belongs to is in `call`
Switch ==
    /\ done = None
    /\ call.op /= "idle" \/ parked.op /= "idle"
    /\ call' = parked
    /\ parked' = call
    /\ UNCHANGED <<client, inits, nInit, done, initOk, outsideClient>>

\* initialize, called while no other initialize is in flight
StartInitializeAlone(cfg) ==
    /\ \A i \in InitIds : inits[i] = Idle
    /\ StartInitialize(cfg)

\* the config and the contracts of the callers that overlap their calls
ConcurrentConfig == Config(RpcUrl, 11155111, Undefined, Undefined)
ConcurrentAddresses == {"0xC0", "0xC1"}

\* ---------------------------------------------------------------- FhevmProvider
\* the configs the application passes: the injected wallet, or null where
\* there is no window
ProviderConfigs ==
    { Config(Injected, 11155111, CustomGateway, Undefined),
      Config(Null, 11155111, CustomGateway, Undefined) }

\* what initialize, called on a new client with cfg, can settle with: the
\* client, or the failure of the step that failed
InitializeResults(cfg) ==
    IF ProviderReadThrows(cfg.provider)
    THEN {CatchOutcome(NullDerefError("request"))}
    ELSE {Ok(This)} \cup
         {CatchOutcome(CollabError(fn, code)) :
              fn \in ({ProviderConstructor(cfg.provider)} \ {"none"}) \cup {"getSigner", "createFhevmInstance"},
              code \in {"NETWORK_ERROR"}}

\* the client object made by run r of the effect, as the context exposes it
ClientRef(r) == [kind |-> "client", by |-> r]

\* a run of the effect at its await: its mounted flag, the config it closed
\* over, and the client it made; later what initialize settled with and
\* whether init() then passed its if (mounted) tests
NewRun(r, cfg) ==
    [op |-> "init", cfg |-> cfg, mounted |-> TRUE, pc |-> "awaitInitialize",
     client |-> [by |-> r, initialized |-> FALSE], out |-> Null, wrote |-> FALSE]

\* a handler that leaves loading as it is when initialize fails
AfterInitializeKeepsLoading(st, mounted, r, out) ==
    IF ~mounted THEN st
    ELSE IF out.kind = "ok"
    THEN [client |-> ClientRef(r), loading |-> FALSE, error |-> Null]
    ELSE [st EXCEPT !.error = out]

\* init() after its await: the React state after setClient / setError(null),
\* or setError(err), and setLoading(false), each only if (mounted)
AfterInitialize(st, mounted, r, out) ==
    IF ~mounted THEN st
    ELSE IF out.kind = "ok"
    THEN [client |-> ClientRef(r), loading |-> FALSE, error |-> Null]
    ELSE [st EXCEPT !.error = out, !.loading = FALSE]

\* the effect runs, on mount and whenever config is a new object: the cleanup
\* of the run before clears its mounted flag, then init() runs to its await
RunEffect(cfg) ==
    /\ prov.mounted
    /\ prov.nRuns < MaxRuns
    /\ LET r == prov.nRuns + 1
           cleaned == [q \in RunIds |-> IF q = prov.nRuns THEN [prov.runs[q] EXCEPT !.mounted = FALSE]
                                        ELSE prov.runs[q]]
       IN prov' = [prov EXCEPT !.nRuns = r,
                               !.runs = [cleaned EXCEPT ![r] = NewRun(r, cfg)],
                               !.state.loading = TRUE]
    /\ UNCHANGED outsideProvider

\* the component after it has unmounted: the cleanup of the last run has
\* cleared its flag
ProviderUnmounted(p) == [p EXCEPT !.mounted = FALSE, !.runs[p.nRuns].mounted = FALSE]

\* the component unmounts
Unmount ==
    /\ prov.mounted
    /\ prov.nRuns >= 1
    /\ prov' = ProviderUnmounted(prov)
    /\ UNCHANGED outsideProvider

\* the initialize promise of run r settles and init() runs to its end
ProviderInitializeSettles(r) ==
    /\ prov.runs[r].op = "init"
    /\ prov.runs[r].pc = "awaitInitialize"
    /\ \E out \in InitializeResults(prov.runs[r].cfg) :
          prov' = [prov EXCEPT !.runs[r].pc = "settled",
                               !.runs[r].out = out,
                               !.runs[r].client.initialized = (out.kind = "ok"),
                               !.runs[r].wrote = prov.runs[r].mounted,
                               !.state = AfterInitialize(prov.state, prov.runs[r].mounted, r, out)]
    /\ UNCHANGED outsideProvider

\* ---------------------------------------------------------------- hook wrappers
\* the calls of the hook that are suspended at an await
HookInFlight(h) == {c \in CallIds : h.calls[c] \in {"awaitCall", "awaitWait"}}
\* what a failed call rejects with
HookCallError(c) == Err("CallError", <<c>>)
\* the receipt useContractWrite stores in data
HookReceipt(c) == [kind |-> "receipt", by |-> c]

\* new Error('FHEVM client not initialized') /
\* new Error('Contract or function name not provided')
HookNotReadyError(k) ==
    IF k = "useContractWrite" THEN Err("Error", <<"Contract or function name not provided">>)
    ELSE Err("Error", <<"FHEVM client not initialized">>)
\* what the callback returns for call c: the ciphertext, the plaintext, the
\* receipt
HookValue(k, c) == IF k = "useContractWrite" THEN HookReceipt(c) ELSE [kind |-> "value", by |-> c]

\* a callback that leaves the error of an earlier call in place
HookAfterCallKeepsError(h, c, ready) ==
    IF ~ready THEN [h EXCEPT !.calls[c] = "notReady", !.results[c] = HookNotReadyError(h.kind)]
    ELSE [h EXCEPT !.flag = TRUE, !.calls[c] = "awaitCall", !.issued = @ \cup {c}]

\* the callback up to its first await: throws before the try when the client
\* (the contract or the function name) is missing, else setEncrypting(true);
\* setError(null) and the call is issued
HookAfterCall(h, c, ready) ==
    IF ~ready THEN [h EXCEPT !.calls[c] = "notReady", !.results[c] = HookNotReadyError(h.kind)]
    ELSE [h EXCEPT !.flag = TRUE, !.error = Null, !.calls[c] = "awaitCall", !.issued = @ \cup {c}]

\* the callback after an await settled with outcome o: useContractWrite goes
\* on to await tx.wait() and then stores the receipt; catch stores the error;
\* finally clears the flag
HookAfterSettle(h, c, o) ==
    IF o /= "ok"
    THEN [h EXCEPT !.error = HookCallError(c), !.flag = FALSE, !.calls[c] = "error",
                   !.results[c] = HookCallError(c)]
    ELSE IF h.kind = "useContractWrite" /\ h.calls[c] = "awaitCall"
    THEN [h EXCEPT !.calls[c] = "awaitWait"]
    ELSE [h EXCEPT !.data = IF h.kind = "useContractWrite" THEN HookReceipt(c) ELSE @,
                   !.flag = FALSE, !.calls[c] = "ok", !.results[c] = Ok(HookValue(h.kind, c))]

\* the component calls encrypt / decrypt / write of the hook
HookCall(ready) ==
    /\ \E c \in CallIds :
          /\ hook.calls[c] = "idle"
          /\ \A b \in 1..(c - 1) : hook.calls[b] /= "idle"
          /\ hook' = HookAfterCall(hook, c, ready)
    /\ UNCHANGED outsideHook

\* the promise call c of the hook awaits settles
HookCallSettles(c) ==
    /\ c \in HookInFlight(hook)
    /\ \E o \in {"ok", "NETWORK_ERROR"} : hook' = HookAfterSettle(hook, c, o)
    /\ UNCHANGED outsideHook

\* ---------------------------------------------------------------- useAddress
\* a run of the effect for context client c: it returns at once when there is
\* no client, else it parks at await client.getAddress()
AddressRun(c) ==
    [op |-> "getAddr", client |-> c, mounted |-> TRUE,
     pc |-> IF c = Null THEN "returned" ELSE "awaitAddress",
     out |-> Null, wrote |-> FALSE]

\* getAddr() up to its return or its await: if (!client) setLoading(false)
AfterGetAddrStart(st, c) == IF c = Null THEN [st EXCEPT !.loading = FALSE] ELSE st

\* a handler without the if (mounted) tests
AfterGetAddressUnguarded(st, mounted, out) ==
    IF out.kind = "ok"
    THEN [address |-> out.val, loading |-> FALSE, error |-> Null]
    ELSE [st EXCEPT !.error = out, !.loading = FALSE]

\* getAddr() after its await: setAddress / setError(null), or setError(err),
\* and setLoading(false), each only if (mounted)
AfterGetAddress(st, mounted, out) ==
    IF ~mounted THEN st
    ELSE IF out.kind = "ok"
    THEN [address |-> out.val, loading |-> FALSE, error |-> Null]
    ELSE [st EXCEPT !.error = out, !.loading = FALSE]

\* the hook after it has unmounted: the cleanup of the last run has cleared
\* its flag
AddressUnmounted(a) ==
    IF a.nRuns = 0 THEN [a EXCEPT !.mounted = FALSE]
    ELSE [a EXCEPT !.mounted = FALSE, !.runs[a.nRuns].mounted = FALSE]

\* the effect runs, on mount and whenever the context's client is another
\* one: the cleanup of the run before clears its flag, then getAddr() runs
AddressEffect ==
    /\ prov.mounted /\ addrHook.mounted
    /\ IF addrHook.nRuns = 0 THEN TRUE
       ELSE addrHook.runs[addrHook.nRuns].client /= prov.state.client
    /\ LET r == addrHook.nRuns + 1
           c == prov.state.client
           cleaned == [q \in AddressRunIds |->
                          IF q = addrHook.nRuns THEN [addrHook.runs[q] EXCEPT !.mounted = FALSE]
                          ELSE addrHook.runs[q]]
       IN /\ r \in AddressRunIds
          /\ addrHook' = [addrHook EXCEPT !.nRuns = r,
                                          !.runs = [cleaned EXCEPT ![r] = AddressRun(c)],
                                          !.state = AfterGetAddrStart(addrHook.state, c)]
    /\ UNCHANGED <<prov, outsideAddress>>

\* the getAddress promise of run r settles and getAddr() runs to its end
AddressSettles(r) ==
    /\ addrHook.runs[r].op = "getAddr"
    /\ addrHook.runs[r].pc = "awaitAddress"
    /\ \E o \in Outcomes("getAddress") :
       LET out == IF o = "ok" THEN Ok(AddressOf(addrHook.runs[r].client))
                  ELSE CollabError("getAddress", o)
       IN addrHook' = [addrHook EXCEPT !.runs[r].pc = "settled",
                                       !.runs[r].out = out,
                                       !.runs[r].wrote = addrHook.runs[r].mounted,
                                       !.state = AfterGetAddress(addrHook.state, addrHook.runs[r].mounted, out)]
    /\ UNCHANGED <<prov, outsideAddress>>

\* the component that uses the hook unmounts
AddressUnmount ==
    /\ addrHook.mounted
    /\ addrHook.nRuns >= 1
    /\ addrHook' = AddressUnmounted(addrHook)
    /\ UNCHANGED <<prov, outsideAddress>>

\* the provider unmounts, and the component that uses the hook with it
UnmountTree ==
    /\ prov.mounted
    /\ prov.nRuns >= 1
    /\ addrHook.mounted => addrHook.nRuns >= 1
    /\ prov' = ProviderUnmounted(prov)
    /\ addrHook' = AddressUnmounted(addrHook)
    /\ UNCHANGED outsideAddress

\* ---------------------------------------------------------------- useContractRead
\* setInterval(fetchData, 5000)
WatchIntervalMs == 5000
\* the steps in which the clock of a running interval is moved on
Delays == {2500}

\* a function name, and the contract and the input sets the hook is used with
FunctionName(n) == [kind |-> "string", value |-> <<n>>]
ReadInputSets ==
    {ReadInputs(c, FunctionName("getValue"), <<>>, w, FALSE) :
        c \in BoundContracts, w \in BOOLEAN}
    \cup {ReadInputs(c, FunctionName("getValue"), <<>>, FALSE, TRUE) : c \in BoundContracts}
    \cup {ReadInputs(c, FunctionName("getValue"), <<7>>, FALSE, FALSE) : c \in BoundContracts}
    \cup {ReadInputs(Null, FunctionName("getValue"), <<>>, FALSE, FALSE)}

\* useCallback(..., [contract, functionName, args]): whether this render gets
\* a new fetchData, given the inputs of the render whose effect ran last
FetchDataChanged(prev, now) ==
    \/ prev.contract /= now.contract
    \/ prev.functionName /= now.functionName
    \/ prev.args /= now.args
    \/ now.fresh
\* useEffect(..., [fetchData, watch]): whether the effect runs after this
\* render
EffectDepsChanged(prev, now) ==
    IF prev = Null THEN TRUE
    ELSE FetchDataChanged(prev, now) \/ prev.watch /= now.watch

\* !(!contract || !functionName)
CanRead(in) == ~IsFalsy(in.contract) /\ ~IsFalsy(in.functionName)

\* a cleanup that leaves the interval running
ClearIntervalLeaks(t) == t

\* clearInterval(interval)
ClearInterval(t) == Null
\* setInterval(fetchData, 5000), fetchData being the one of inputs `in`
SetInterval(in) == [kind |-> "interval", inputs |-> in, elapsed |-> 0]

\* fetchData up to its return or its await: setLoading(false), or
\* setLoading(true) and setError(null)
FetchStart(st, in) ==
    IF CanRead(in) THEN [st EXCEPT !.loading = TRUE, !.error = Null]
    ELSE [st EXCEPT !.loading = FALSE]

\* what the read numbered k resolves with
ReadResult(k) == [kind |-> "result", of |-> k]
\* a read at its await, with the inputs fetchData closed over and who called
\* fetchData: the effect, the interval, or the caller through refetch
ReadCall(in, by) == [op |-> "read", by |-> by, inputs |-> in, pc |-> "await", out |-> Null]

\* fetchData after its await: setData(result), or setError(err), and
\* setLoading(false); nothing asks whether the hook is still mounted or
\* whether a later read has been issued
AfterRead(st, out) ==
    IF out.kind = "ok" THEN [st EXCEPT !.data = out.val, !.loading = FALSE]
    ELSE [st EXCEPT !.error = out, !.loading = FALSE]

\* the hook after fetchData of inputs `in` has been called
Fetch(h, in, by) ==
    IF CanRead(in)
    THEN [h EXCEPT !.state = FetchStart(h.state, in),
                   !.nReads = h.nReads + 1,
                   !.reads[h.nReads + 1] = ReadCall(in, by)]
    ELSE [h EXCEPT !.state = FetchStart(h.state, in)]

\* a set-state call with another value on a mounted component schedules a
\* render
WithRender(h, after) ==
    [after EXCEPT !.dirty = h.mounted /\ (after.dirty \/ after.state /= h.state)]

\* whether fetchData of inputs `in` can be called within the bound
WithinReads(in) == CanRead(in) => readHook.nReads < MaxReads

\* the component renders and its effects run: when fetchData or watch is
\* another one, the cleanup of the last run clears its interval, fetchData is
\* called, and with watch the interval is set
Render ==
    /\ readHook.mounted /\ readHook.dirty
    /\ LET in == readHook.inputs
           rendered == [readHook EXCEPT !.dirty = FALSE]
       IN IF EffectDepsChanged(readHook.effect, in)
          THEN /\ WithinReads(in)
               /\ readHook' = WithRender(rendered,
                     Fetch([rendered EXCEPT !.effect = in,
                                            !.timer = IF in.watch THEN SetInterval(in)
                                                      ELSE ClearInterval(readHook.timer)],
                           in, "effect"))
          ELSE readHook' = rendered
    /\ UNCHANGED outsideRead

\* the component renders the hook with other inputs
ChangeInputs(in) ==
    /\ readHook.mounted
    /\ readHook.changes < MaxChanges
    /\ in /= readHook.inputs
    /\ readHook' = [readHook EXCEPT !.inputs = in, !.dirty = TRUE,
                                    !.changes = readHook.changes + 1]
    /\ UNCHANGED outsideRead

\* the caller calls refetch, the fetchData of the last render
Refetch ==
    /\ readHook.mounted
    /\ readHook.effect /= Null
    /\ WithinReads(readHook.effect)
    /\ readHook' = WithRender(readHook, Fetch(readHook, readHook.effect, "refetch"))
    /\ UNCHANGED outsideRead

\* time passes on the clock of the interval
Advance(d) ==
    /\ readHook.timer /= Null
    /\ readHook.timer.elapsed + d <= WatchIntervalMs
    /\ readHook' = [readHook EXCEPT !.timer.elapsed = readHook.timer.elapsed + d]
    /\ UNCHANGED outsideRead

\* the interval fires and calls its fetchData
Tick ==
    /\ readHook.timer /= Null
    /\ readHook.timer.elapsed = WatchIntervalMs
    /\ WithinReads(readHook.timer.inputs)
    /\ readHook' = WithRender(readHook,
          Fetch([readHook EXCEPT !.timer.elapsed = 0], readHook.timer.inputs, "tick"))
    /\ UNCHANGED outsideRead

\* the promise of read k settles and fetchData runs to its end
ReadSettles(k) ==
    /\ readHook.reads[k].op = "read"
    /\ readHook.reads[k].pc = "await"
    /\ \E o \in Outcomes("read") :
       LET out == IF o = "ok" THEN Ok(ReadResult(k)) ELSE CollabError("read", o)
       IN readHook' = WithRender(readHook,
             [readHook EXCEPT !.reads[k].pc = "settled",
                              !.reads[k].out = out,
                              !.state = AfterRead(readHook.state, out)])
    /\ UNCHANGED outsideRead

\* the component unmounts: the cleanup of the last run of the effect clears
\* its interval
ReadUnmount ==
    /\ readHook.mounted
    /\ readHook.effect /= Null
    /\ readHook' = [readHook EXCEPT !.mounted = FALSE, !.dirty = FALSE,
                                    !.timer = ClearInterval(readHook.timer)]
    /\ UNCHANGED outsideRead

\* ---------------------------------------------------------------- FarmerSubsidy
\* FHE.asEuint64(1000), FHE.asEuint64(400), FHE.asEuint64(300),
\* FHE.asEuint64(50000)
BaseSubsidy == 1000
FarmSizeBonus == 400
YieldBonus == 300
MaxIncomeThreshold == 50000

\* the arguments the transactions are sent with
Budgets == {1700, 3400}
Durations == {1}
FarmData == {<<0, 5>>, <<5, 0>>, <<5, 5>>}
IncomeLevels == {30000, 60000}
SubsidyAmounts == {0, BaseSubsidy + FarmSizeBonus + YieldBonus}
Deposits == {3400}
Signatures == {"kms", "forged"}

\* how a transaction ends: reverted with a reason, the state as it was, or
\* executed
Revert(s, reason) == [state |-> s, status |-> reason]
Success(s) == [state |-> s, status |-> "ok"]

\* a contract whose modifier lets every sender through
OnlySubsidyAuthorityOpen(s, sender) == TRUE

\* modifier onlySubsidyAuthority
OnlySubsidyAuthority(s, sender) == sender = s.subsidyAuthority
\* modifier duringRegistrationPeriod
DuringRegistrationPeriod(s) ==
    LET period == s.distributionPeriods[s.currentDistributionPeriod]
    IN period.isActive /\ ~period.distributionCompleted

StartNewDistributionPeriod(s, sender, now, budget, duration) ==
    IF ~OnlySubsidyAuthority(s, sender) THEN Revert(s, "Not authorized")
    ELSE IF s.distributionPeriods[s.currentDistributionPeriod].isActive
    THEN Revert(s, "Current period still active")
    ELSE Success([s EXCEPT !.distributionPeriods[s.currentDistributionPeriod] =
                     [endTime |-> now + duration,
                      totalBudget |-> budget, distributedAmount |-> 0,
                      beneficiaryCount |-> 0, isActive |-> TRUE,
                      distributionCompleted |-> FALSE]])

\* a registerFarmer without require(!farmers[msg.sender].isRegistered)
RegisterFarmerAgain(s, sender, now, farmSize, cropYield, incomeLevel) ==
    IF ~DuringRegistrationPeriod(s) THEN Revert(s, "Registration not active")
    ELSE IF ~(farmSize > 0 /\ cropYield > 0) THEN Revert(s, "Invalid farm data")
    ELSE Success([s EXCEPT !.farmers[sender] =
                     [encryptedFarmSize |-> Encrypted("euint32", farmSize),
                      encryptedCropYield |-> Encrypted("euint32", cropYield),
                      encryptedIncomeLevel |-> Encrypted("euint64", incomeLevel),
                      isRegistered |-> TRUE, hasReceivedSubsidy |-> FALSE,
                      farmerAddress |-> sender],
                  !.registeredFarmers = Append(s.registeredFarmers, sender)])

RegisterFarmer(s, sender, now, farmSize, cropYield, incomeLevel) ==
    IF ~DuringRegistrationPeriod(s) THEN Revert(s, "Registration not active")
    ELSE IF s.farmers[sender].isRegistered THEN Revert(s, "Already registered")
    ELSE IF ~(farmSize > 0 /\ cropYield > 0) THEN Revert(s, "Invalid farm data")
    ELSE Success([s EXCEPT !.farmers[sender] =
                     [encryptedFarmSize |-> Encrypted("euint32", farmSize),
                      encryptedCropYield |-> Encrypted("euint32", cropYield),
                      encryptedIncomeLevel |-> Encrypted("euint64", incomeLevel),
                      isRegistered |-> TRUE, hasReceivedSubsidy |-> FALSE,
                      farmerAddress |-> sender],
                  !.registeredFarmers = Append(s.registeredFarmers, sender)])

\* FHE.select(FHE.lt(income, 50000), 1000 + (400 + 300), 0)
FinalSubsidy(income) ==
    IF income.plain < MaxIncomeThreshold THEN BaseSubsidy + (FarmSizeBonus + YieldBonus)
    ELSE 0

CalculateSubsidyAmount(s, sender, farmer) ==
    IF ~OnlySubsidyAuthority(s, sender) THEN Revert(s, "Not authorized")
    ELSE IF ~s.farmers[farmer].isRegistered THEN Revert(s, "Farmer not registered")
    ELSE IF s.farmers[farmer].hasReceivedSubsidy THEN Revert(s, "Subsidy already received")
    ELSE Success([s EXCEPT !.encryptedSubsidyAmounts[s.currentDistributionPeriod][farmer] =
                     Encrypted("euint64", FinalSubsidy(s.farmers[farmer].encryptedIncomeLevel))])

\* FHE.requestDecryption hands out the request ids in turn and keeps the
\* ciphertext it is to decrypt
RequestSubsidyDecryption(s, sender, farmer) ==
    LET encryptedAmount == s.encryptedSubsidyAmounts[s.currentDistributionPeriod][farmer]
        requestId == s.nRequests + 1
    IN IF ~OnlySubsidyAuthority(s, sender) THEN Revert(s, "Not authorized")
       ELSE IF ~s.farmers[farmer].isRegistered THEN Revert(s, "Farmer not registered")
       ELSE IF ~encryptedAmount.set THEN Revert(s, "No subsidy calculated")
       ELSE Success([s EXCEPT !.nRequests = requestId,
                              !.requested[requestId] = encryptedAmount,
                              !.decryptionRequests[requestId] = farmer])

\* FHE.checkSignatures: the signatures are the oracle's, over this request and
\* this cleartext
CheckSignatures(s, requestId, subsidyAmount, signatures) ==
    /\ signatures = "kms"
    /\ s.requested[requestId].set
    /\ s.requested[requestId].plain = subsidyAmount

\* a processSubsidyDistribution without the "Budget exceeded" require
ProcessSubsidyDistributionUnbudgeted(s, sender, requestId, subsidyAmount, signatures) ==
    LET farmer == s.decryptionRequests[requestId]
        cur == s.currentDistributionPeriod
        currentPeriod == s.distributionPeriods[cur]
        deleted == [s EXCEPT !.decryptionRequests[requestId] = AddressZero]
    IN IF ~CheckSignatures(s, requestId, subsidyAmount, signatures)
       THEN Revert(s, "Invalid signatures")
       ELSE IF farmer = AddressZero THEN Revert(s, "Invalid request ID")
       ELSE IF ~s.farmers[farmer].isRegistered THEN Revert(s, "Farmer not registered")
       ELSE IF s.farmers[farmer].hasReceivedSubsidy THEN Revert(s, "Subsidy already received")
       ELSE IF ~(subsidyAmount > 0) THEN Success(deleted)
       ELSE IF s.balance < subsidyAmount THEN Revert(s, "Transfer failed")
       ELSE Success([deleted EXCEPT
                        !.farmers[farmer].hasReceivedSubsidy = TRUE,
                        !.distributionPeriods[cur].distributedAmount =
                            currentPeriod.distributedAmount + subsidyAmount,
                        !.distributionPeriods[cur].beneficiaryCount =
                            currentPeriod.beneficiaryCount + 1,
                        !.balance = s.balance - subsidyAmount])

\* a processSubsidyDistribution without the "Subsidy already received" require
ProcessSubsidyDistributionRepeated(s, sender, requestId, subsidyAmount, signatures) ==
    LET farmer == s.decryptionRequests[requestId]
        cur == s.currentDistributionPeriod
        currentPeriod == s.distributionPeriods[cur]
        deleted == [s EXCEPT !.decryptionRequests[requestId] = AddressZero]
    IN IF ~CheckSignatures(s, requestId, subsidyAmount, signatures)
       THEN Revert(s, "Invalid signatures")
       ELSE IF farmer = AddressZero THEN Revert(s, "Invalid request ID")
       ELSE IF ~s.farmers[farmer].isRegistered THEN Revert(s, "Farmer not registered")
       ELSE IF ~(subsidyAmount > 0) THEN Success(deleted)
       ELSE IF ~(currentPeriod.distributedAmount + subsidyAmount <= currentPeriod.totalBudget)
       THEN Revert(s, "Budget exceeded")
       ELSE IF s.balance < subsidyAmount THEN Revert(s, "Transfer failed")
       ELSE Success([deleted EXCEPT
                        !.farmers[farmer].hasReceivedSubsidy = TRUE,
                        !.distributionPeriods[cur].distributedAmount =
                            currentPeriod.distributedAmount + subsidyAmount,
                        !.distributionPeriods[cur].beneficiaryCount =
                            currentPeriod.beneficiaryCount + 1,
                        !.balance = s.balance - subsidyAmount])

ProcessSubsidyDistribution(s, sender, requestId, subsidyAmount, signatures) ==
    LET farmer == s.decryptionRequests[requestId]
        cur == s.currentDistributionPeriod
        currentPeriod == s.distributionPeriods[cur]
        deleted == [s EXCEPT !.decryptionRequests[requestId] = AddressZero]
    IN IF ~CheckSignatures(s, requestId, subsidyAmount, signatures)
       THEN Revert(s, "Invalid signatures")
       ELSE IF farmer = AddressZero THEN Revert(s, "Invalid request ID")
       ELSE IF ~s.farmers[farmer].isRegistered THEN Revert(s, "Farmer not registered")
       ELSE IF s.farmers[farmer].hasReceivedSubsidy THEN Revert(s, "Subsidy already received")
       ELSE IF ~(subsidyAmount > 0) THEN Success(deleted)
       ELSE IF ~(currentPeriod.distributedAmount + subsidyAmount <= currentPeriod.totalBudget)
       THEN Revert(s, "Budget exceeded")
       ELSE IF s.balance < subsidyAmount THEN Revert(s, "Transfer failed")
       ELSE Success([deleted EXCEPT
                        !.farmers[farmer].hasReceivedSubsidy = TRUE,
                        !.distributionPeriods[cur].distributedAmount =
                            currentPeriod.distributedAmount + subsidyAmount,
                        !.distributionPeriods[cur].beneficiaryCount =
                            currentPeriod.beneficiaryCount + 1,
                        !.balance = s.balance - subsidyAmount])

\* the registered farmers after the loop that clears hasReceivedSubsidy
ResetReceived(s) ==
    [a \in Accounts |->
        IF \E i \in 1..Len(s.registeredFarmers) : s.registeredFarmers[i] = a
        THEN [s.farmers[a] EXCEPT !.hasReceivedSubsidy = FALSE]
        ELSE s.farmers[a]]

CompleteDistributionPeriod(s, sender, now) ==
    LET cur == s.currentDistributionPeriod
        period == s.distributionPeriods[cur]
    IN IF ~OnlySubsidyAuthority(s, sender) THEN Revert(s, "Not authorized")
       ELSE IF ~period.isActive THEN Revert(s, "Period not active")
       ELSE IF ~(now >= period.endTime) THEN Revert(s, "Period not ended")
       ELSE Success([s EXCEPT !.distributionPeriods[cur].isActive = FALSE,
                              !.distributionPeriods[cur].distributionCompleted = TRUE,
                              !.farmers = ResetReceived(s),
                              !.currentDistributionPeriod = cur + 1])

\* receive() external payable
Receive(s, sender, value) ==
    Success([s EXCEPT !.totalSubsidyBudget = s.totalSubsidyBudget + value,
                      !.balance = s.balance + value])

WithdrawUnusedFunds(s, sender) ==
    IF ~OnlySubsidyAuthority(s, sender) THEN Revert(s, "Not authorized")
    ELSE IF s.distributionPeriods[s.currentDistributionPeriod].isActive
    THEN Revert(s, "Distribution active")
    ELSE IF ~(s.balance > 0) THEN Revert(s, "No funds to withdraw")
    ELSE Success([s EXCEPT !.balance = 0])

\* emit SubsidyDistributed(farmer, currentDistributionPeriod, subsidyAmount),
\* with the request the payout answers
SubsidyDistributed(farmer, period, amount, requestId) ==
    [farmer |-> farmer, period |-> period, amount |-> amount, requestId |-> requestId]

\* a transaction is mined: the contract is in the state it ends with
Transact(result) ==
    /\ farm' = [farm EXCEPT !.state = result.state, !.last = result.status]
    /\ UNCHANGED outsideFarm

SendStartNewDistributionPeriod ==
    \E sender \in Callers, budget \in Budgets, duration \in Durations :
       Transact(StartNewDistributionPeriod(farm.state, sender, farm.now, budget, duration))

SendRegisterFarmer ==
    \E sender \in Farmers, data \in FarmData, incomeLevel \in IncomeLevels :
       Transact(RegisterFarmer(farm.state, sender, farm.now, data[1], data[2], incomeLevel))

SendCalculateSubsidyAmount ==
    \E sender \in Callers, farmer \in Farmers :
       Transact(CalculateSubsidyAmount(farm.state, sender, farmer))

SendRequestSubsidyDecryption ==
    \E sender \in Callers, farmer \in Farmers :
       LET result == RequestSubsidyDecryption(farm.state, sender, farmer)
       IN /\ farm.state.nRequests < MaxRequests
          /\ farm' = [farm EXCEPT
                         !.state = result.state,
                         !.last = result.status,
                         !.requestedIn =
                             IF result.status = "ok"
                             THEN [@ EXCEPT ![result.state.nRequests] =
                                               farm.state.currentDistributionPeriod]
                             ELSE @]
          /\ UNCHANGED outsideFarm

\* the oracle's callback, or anyone's call with signatures of their own
SendProcessSubsidyDistribution ==
    \E requestId \in RequestIds, subsidyAmount \in SubsidyAmounts, signatures \in Signatures :
       LET result == ProcessSubsidyDistribution(farm.state, Relayer, requestId, subsidyAmount, signatures)
       IN /\ farm' = [farm EXCEPT
                         !.state = result.state,
                         !.last = result.status,
                         !.distributed =
                             IF result.status = "ok" /\ subsidyAmount > 0
                             THEN Append(@, SubsidyDistributed(
                                                farm.state.decryptionRequests[requestId],
                                                farm.state.currentDistributionPeriod,
                                                subsidyAmount, requestId))
                             ELSE @]
          /\ UNCHANGED outsideFarm

SendCompleteDistributionPeriod ==
    \E sender \in Callers :
       /\ farm.state.currentDistributionPeriod < MaxPeriods
       /\ Transact(CompleteDistributionPeriod(farm.state, sender, farm.now))

SendEther ==
    \E value \in Deposits :
       /\ farm.state.totalSubsidyBudget + value <= MaxFunds
       /\ Transact(Receive(farm.state, Relayer, value))

SendWithdrawUnusedFunds ==
    \E sender \in Callers :
       Transact(WithdrawUnusedFunds(farm.state, sender))

\* block.timestamp moves on
AdvanceTime ==
    /\ farm.now < MaxTime
    /\ farm' = [farm EXCEPT !.now = farm.now + 1]
    /\ UNCHANGED outsideFarm

\* ---------------------------------------------------------------- createFhevmClient
\* every shape of config a caller can pass: each provider shape or none, a
\* chain id or none, the optional fields present or omitted
AllConfigs ==
    { Config(p, c, g, a) : p \in {RpcUrl, Injected, Prebuilt, Undefined, Null},
                           c \in {1, 11155111, NoChainId},
                           g \in {Undefined, CustomGateway, EmptyString},
                           a \in {Undefined, CustomAcl, EmptyString} }

\* a factory that catches the failure and returns the client all the same
CreateFhevmClientReturnsAnyway(c, r) == Ok(c)

\* await client.initialize(config); return client;
\* r is what initialize settled with, c the client's fields at that moment
CreateFhevmClientResult(c, r) == IF r.kind = "ok" THEN Ok(c) ELSE r

\* createFhevmClient up to the first await of initialize (lines 199-201):
\* the client is a new one
CreateFhevmClient(cfg) ==
    /\ \A i \in InitIds : inits[i] = Idle
    /\ call = Idle
    /\ StartInitializeOn(NewClient, cfg)

\* the initialize promise has settled: createFhevmClient returns the client
\* or rejects (lines 201-202)
CreateFhevmClientSettles ==
    /\ SettledInitialize
    /\ done' = [op |-> "createFhevmClient", args |-> done.args, loc |-> [initialize |-> done],
                log |-> done.log, init0 |-> FALSE,
                out |-> CreateFhevmClientResult(client, done.out)]
    /\ UNCHANGED <<client, inits, call, nInit, initOk, parked, outsideClient>>

\* the caller of createFhevmClient has received the client or the failure
ObserveCreated ==
    /\ done /= None /\ done.op = "createFhevmClient"
    /\ Observe

\* ---------------------------------------------------------------- specification
Next ==
    \/ \E cfg \in Configs : StartInitialize(cfg)
    \/ \E i \in InitIds : InitializeSignerSettles(i)
    \/ \E i \in InitIds : InitializeInstanceSettles(i)
    \/ IsInitialized
    \/ \E v \in Values, t \in TypeArgs : StartEncrypt(v, t)
    \/ EncryptSettles
    \/ \E a \in ContractAddresses, h \in Handles : StartUserDecrypt(a, h)
    \/ UserDecryptStep
    \/ \E c \in BoundContracts, f \in FunctionNames, args \in PublicArgs : StartPublicDecrypt(c, f, args)
    \/ PublicDecryptStep
    \/ \E a \in ContractAddresses : CreateContract(a, Abi)
    \/ StartGetAddress
    \/ GetAddressSettles
    \/ Observe

Spec == Init /\ [][Next]_vars

\* clients made by createFhevmClient, one after the other, from every shape
\* of config
NextCreate ==
    \/ \E cfg \in AllConfigs : CreateFhevmClient(cfg)
    \/ \E i \in InitIds : InitializeSignerSettles(i)
    \/ \E i \in InitIds : InitializeInstanceSettles(i)
    \/ CreateFhevmClientSettles
    \/ ObserveCreated

SpecCreate == Init /\ [][NextCreate]_vars

\* one client whose callers issue encrypt and userDecrypt without awaiting
\* the call before: up to two of them are in flight together
NextConcurrent ==
    \/ StartInitializeAlone(ConcurrentConfig)
    \/ \E i \in InitIds : InitializeSignerSettles(i)
    \/ \E i \in InitIds : InitializeInstanceSettles(i)
    \/ \E v \in Values, t \in TypeArgs : StartEncrypt(v, t)
    \/ EncryptSettles
    \/ \E a \in ConcurrentAddresses, h \in Handles : StartUserDecrypt(a, h)
    \/ UserDecryptStep
    \/ Switch
    \/ Observe

SpecConcurrent == Init /\ [][NextConcurrent]_vars

\* the FhevmProvider component from its first render on
NextProvider ==
    \/ \E cfg \in ProviderConfigs : RunEffect(cfg)
    \/ Unmount
    \/ \E r \in RunIds : ProviderInitializeSettles(r)

SpecProvider == Init /\ [][NextProvider]_vars

\* every initialize promise settles: the collaborators answer
FairSpecProvider == SpecProvider /\ \A r \in RunIds : WF_vars(ProviderInitializeSettles(r))

\* one instance of one of the hook wrappers and the calls made through it
InitHooks ==
    /\ InitClient
    /\ prov = NewProvider
    /\ addrHook = NewAddress
    /\ readHook = NewRead(ReadInputs(Null, Undefined, <<>>, FALSE, FALSE))
    /\ farm = NewFarm
    /\ hook \in {NewHook(k) : k \in HookNames}

NextHooks ==
    \/ \E ready \in BOOLEAN : HookCall(ready)
    \/ \E c \in CallIds : HookCallSettles(c)

SpecHooks == InitHooks /\ [][NextHooks]_vars

\* FhevmProvider with one component under it that calls useAddress
NextAddress ==
    \/ \E cfg \in ProviderConfigs : RunEffect(cfg)
    \/ \E r \in RunIds : ProviderInitializeSettles(r)
    \/ AddressEffect
    \/ \E r \in AddressRunIds : AddressSettles(r)
    \/ AddressUnmount
    \/ UnmountTree

SpecAddress == Init /\ [][NextAddress]_vars

\* one component that calls useContractRead
InitRead ==
    /\ InitClient
    /\ prov = NewProvider
    /\ hook = NewHook("useEncrypt")
    /\ addrHook = NewAddress
    /\ readHook \in {NewRead(in) : in \in ReadInputSets}
    /\ farm = NewFarm

NextRead ==
    \/ Render
    \/ \E in \in ReadInputSets : ChangeInputs(in)
    \/ Refetch
    \/ \E d \in Delays : Advance(d)
    \/ Tick
    \/ \E k \in ReadIds : ReadSettles(k)
    \/ ReadUnmount

SpecRead == InitRead /\ [][NextRead]_vars

\* the FarmerSubsidy contract and the accounts that send it transactions
NextFarm ==
    \/ SendStartNewDistributionPeriod
    \/ SendRegisterFarmer
    \/ SendCalculateSubsidyAmount
    \/ SendRequestSubsidyDecryption
    \/ SendProcessSubsidyDistribution
    \/ SendCompleteDistributionPeriod
    \/ SendEther
    \/ SendWithdrawUnusedFunds
    \/ AdvanceTime

SpecFarm == Init /\ [][NextFarm]_vars

\* ---------------------------------------------------------------- claims
\* what every settled or suspended invocation of op looks like
SettledOp(op) == done /= None /\ done.op = op
SuspendedOp(op) == call /= Idle /\ call.op = op
Failed(inv) == inv.out.kind = "error"
FnsOf(log) == [k \in 1..Len(log) |-> log[k].fn]

\* C1: encrypt and userDecrypt, called while the client is not initialized
\* (fresh, initialize in flight, initialize failed), reject with the
\* not-initialized error and have issued no backend call and no signer call;
\* no such invocation is ever left suspended on a collaborator.
C1_NotInitializedEncryptDecrypt ==
    /\ \A op \in {"encrypt", "userDecrypt"} :
          SettledOp(op) /\ ~done.init0 => done.out = NotInitializedError /\ done.log = <<>>
    /\ \A op \in {"encrypt", "userDecrypt"} : SuspendedOp(op) => call.init0

\* C1 witness: userDecrypt rejected on a client whose initialize got as far as
\* storing a signer and has not succeeded
C1_Witness ==
    /\ SettledOp("userDecrypt") /\ ~done.init0
    /\ done.out = NotInitializedError
    /\ client.signer /= Null

\* C2 (as claimed): createContract returns a binding only when the client is
\* initialized, and fails with a not-initialized failure otherwise.  Both of
\* the client's "not ready" errors are accepted as that failure here.
C2_CreateContractRequiresInitialized ==
    SettledOp("createContract") =>
        /\ done.out.kind = "ok" => done.init0
        /\ ~done.init0 => done.out \in {NotInitializedError, SignerNotAvailableError}

\* C3 (as claimed): getAddress on a client that is not initialized rejects
\* with the not-initialized error of encrypt/userDecrypt and never calls the
\* signer.
C3_GetAddressRequiresInitialized ==
    /\ SettledOp("getAddress") /\ ~done.init0 =>
          done.out = NotInitializedError /\ done.log = <<>>
    /\ SuspendedOp("getAddress") => call.init0

\* the collaborator calls of a complete userDecrypt(addr, handle), in order
C4_Protocol == <<"generateToken", "createEIP712", "signTypedData", "decrypt">>
C4_IsPrefix(p, q) == Len(p) <= Len(q) /\ \A k \in 1..Len(p) : p[k] = q[k]
C4_Ordered(inv) ==
    LET log == inv.log
        n == Len(log)
    IN /\ C4_IsPrefix(FnsOf(log), C4_Protocol)
       /\ n >= 1 => log[1].args = <<[verifyingContract |-> inv.args[1]]>>
       /\ n >= 2 => /\ log[1].res = "ok"
                    /\ log[2].args = <<inv.args[2], Token(inv.args[1]).publicKey>>
       /\ n >= 3 => log[2].res = "ok" /\ log[3].on = inv.loc.signer
       /\ n >= 4 => log[3].res = "ok" /\ log[4].args[1] = inv.args[2]
       /\ \A k \in 1..n : log[k].fn /= "signTypedData" => log[k].on = inv.loc.instance

\* C4: on an initialized client userDecrypt issues the token request, the
\* typed-data construction, the signature request and the decrypt call in
\* that order, each only after the one before has succeeded; it succeeds only
\* after all four; and when the signature request is rejected it issues no
\* decrypt call and rejects with the signer's rejection.
C4_UserDecryptOrder ==
    /\ SuspendedOp("userDecrypt") => C4_Ordered(call) /\ Len(call.log) \in {1, 3, 4}
    /\ SettledOp("userDecrypt") /\ done.init0 =>
          /\ C4_Ordered(done)
          /\ done.out.kind = "ok" => Len(done.log) = 4 /\ done.log[4].res = "ok"
          /\ \A k \in 1..Len(done.log) :
                done.log[k].fn = "signTypedData" /\ done.log[k].res \notin {"ok", "pending"} =>
                    /\ Len(done.log) = k
                    /\ done.out = CollabError("signTypedData", done.log[k].res)

\* C4 witness: a userDecrypt whose signature request the user declined
C4_Witness ==
    /\ SettledOp("userDecrypt")
    /\ Len(done.log) = 3
    /\ done.log[3].res = "ACTION_REJECTED"

\* the backend call the spec assigns to each recognized label
C5_BackendCall ==
    [uint8 |-> "encrypt8", uint16 |-> "encrypt16", uint32 |-> "encrypt32",
     uint64 |-> "encrypt64", address |-> "encryptAddress", bool |-> "encryptBool"]
C5_Label(inv) == IF inv.args[2] = Undefined THEN "uint32" ELSE inv.args[2].value[1]
C5_OneCall(inv) ==
    /\ Len(inv.log) = 1
    /\ inv.log[1].fn = C5_BackendCall[C5_Label(inv)]
    /\ inv.log[1].args = <<inv.args[1]>>
    /\ inv.log[1].on = inv.loc.instance

\* C5: on an initialized client encrypt(v, type) makes exactly one backend
\* call, the one named after the label (uint32 when the type is omitted), with
\* v, and settles with that call's result; for any other label it rejects with
\* the unsupported-type error naming the label and makes no backend call.
C5_EncryptDispatch ==
    /\ SuspendedOp("encrypt") =>
          C5_Label(call) \in DOMAIN C5_BackendCall /\ C5_OneCall(call)
    /\ SettledOp("encrypt") /\ done.init0 =>
          IF C5_Label(done) \in DOMAIN C5_BackendCall
          THEN /\ C5_OneCall(done)
               /\ done.log[1].res = "ok" =>
                     done.out = Ok(Ciphertext(C5_BackendCall[C5_Label(done)], done.args[1]))
               /\ done.log[1].res /= "ok" => Failed(done)
          ELSE /\ done.log = <<>>
               /\ done.out = UnsupportedTypeError(C5_Label(done))

\* C5 witness: encrypt(v, "uint64") has returned the ciphertext of encrypt64
C5_Witness ==
    /\ SettledOp("encrypt")
    /\ C5_Label(done) = "uint64"
    /\ done.out.kind = "ok"

\* C6 (as claimed): a failed initialize leaves provider, signer, chainId,
\* instance and initialized as they were when it was called.
C6_FailedInitializeLeavesNoTrace ==
    SettledOp("initialize") /\ Failed(done) => client = done.loc.before

\* C7 (as claimed): whenever the client is initialized, its provider, signer,
\* chainId and backend instance all come from one initialize call: there is one
\* invocation i with one config that produced the four of them.
C7_OneInitializeCall ==
    client.initialized =>
        \E i \in InitIds, cfg \in Configs :
            /\ ~ProviderReadThrows(cfg.provider)
            /\ LET p == ResolveProvider(cfg.provider, i)
               IN /\ client.provider = p
                  /\ client.signer = SignerOf(p, i)
                  /\ client.chainId = cfg.chainId
                  /\ client.instance = InstanceOf(BackendParams(cfg, p), i)

\* C8: once initialized is true it is true in every later state.
C8_InitializedOneWay == [][client.initialized => client'.initialized]_vars

\* C8 witness: an initialize has failed on a client that was initialized, and
\* the client is still initialized
C8_Witness ==
    /\ SettledOp("initialize") /\ Failed(done)
    /\ done.init0
    /\ client.initialized

\* C9: isInitialized() returns whether some initialize invocation has
\* returned successfully, and the call changes no field of the client.
C9_IsInitializedAccessor ==
    /\ [](SettledOp("isInitialized") => done.out = Ok(initOk))
    /\ [][done'.op = "isInitialized" => client' = client]_vars

\* C9 witness: isInitialized() returned false while the client already holds a
\* signer: an initialize is in flight or has failed
C9_Witness ==
    /\ SettledOp("isInitialized")
    /\ done.out = Ok(FALSE)
    /\ client.signer /= Null

FailedCalls(log) == {k \in 1..Len(log) : log[k].res \notin {"ok", "pending"}}

\* C10: when a collaborator call made by initialize, encrypt, userDecrypt,
\* publicDecrypt or getAddress has failed, the invocation rejects with that
\* failure, and the step on which a failing initialize settles does not
\* change initialized.
C10_FailuresPropagate ==
    /\ [](\A op \in {"initialize", "encrypt", "userDecrypt", "publicDecrypt", "getAddress"} :
            SettledOp(op) =>
                \A k \in FailedCalls(done.log) :
                    done.out = CollabError(done.log[k].fn, done.log[k].res))
    /\ [][done'.op = "initialize" /\ FailedCalls(done'.log) /= {} =>
            client'.initialized = client.initialized /\ initOk' = initOk]_vars

\* C10 witness: initialize rejected with the failure of createFhevmInstance
C10_Witness ==
    /\ SettledOp("initialize")
    /\ Len(done.log) = 2
    /\ done.out = CollabError("createFhevmInstance", "NETWORK_ERROR")

\* the invocations in progress, one after the other: those suspended at an
\* await (free slots are Idle) and, last, the one that has just settled (or None)
Invocations == <<call, parked>> \o inits \o <<done>>
TheSettled == Len(Invocations)
\* the positions of the suspended invocations, and of those of operation op,
\* suspended or settled
InFlight == {k \in 1..(TheSettled - 1) : Invocations[k].op /= "idle"}
InvocationsOf(op) == {k \in 1..TheSettled : Invocations[k].op = op}
\* no collaborator function is called twice, and every call but the last
\* has succeeded
C11_NoRetry(log) ==
    /\ \A j, k \in 1..Len(log) : j < k => log[j].fn /= log[k].fn
    /\ \A k \in 1..(Len(log) - 1) : log[k].res = "ok"

\* C11: no operation retries.  In every invocation, suspended or settled,
\* each collaborator function has been called at most once (getSigner and
\* createFhevmInstance by initialize; generateToken, signTypedData and decrypt
\* by userDecrypt; the contract function and wait by publicDecrypt), a
\* suspended invocation has no failed call behind it, and in a settled one
\* only the last call can be the failed one.
C11_NoRetries ==
    /\ \A k \in InFlight : C11_NoRetry(Invocations[k].log) /\ FailedCalls(Invocations[k].log) = {}
    /\ done /= None => C11_NoRetry(done.log)

\* C11 witness: userDecrypt settled on a rejected signature request, after
\* generateToken, createEIP712 and one signTypedData and nothing else
C11_Witness ==
    /\ SettledOp("userDecrypt")
    /\ FnsOf(done.log) = <<"generateToken", "createEIP712", "signTypedData">>
    /\ done.log[3].res = "ACTION_REJECTED"

\* C18: whenever createFhevmClient resolves, initialize had resolved and the
\* client it returns answers isInitialized() with true; whenever initialize
\* failed, createFhevmClient rejects with that same failure and returns no
\* client.
C18_CreateFhevmClient ==
    SettledOp("createFhevmClient") =>
        /\ done.out.kind = "ok" =>
              /\ done.loc.initialize.out.kind = "ok"
              /\ IsInitializedResult(done.out.val)
        /\ Failed(done.loc.initialize) =>
              done.out = done.loc.initialize.out

\* C18 witness: createFhevmClient rejected with the failure of getSigner
C18_Witness ==
    /\ SettledOp("createFhevmClient")
    /\ done.out = CollabError("getSigner", "NETWORK_ERROR")

\* C18 witness: createFhevmClient resolved with an initialized client
C18_WitnessResolved ==
    /\ SettledOp("createFhevmClient")
    /\ done.out.kind = "ok"
    /\ done.out.val.initialized

\* a required field of the config is missing
LacksRequiredField(cfg) == IsNullish(cfg.provider) \/ cfg.chainId = NoChainId

\* C12: an initialize invocation whose config lacks the provider or the
\* chainId never has a collaborator call in its log (no provider
\* construction, no signer request, no backend construction), is never
\* suspended at an await, and settles with a failure.
C12_MissingFieldFailsEarly ==
    /\ \A k \in InFlight \cap InvocationsOf("initialize") :
          ~LacksRequiredField(Invocations[k].args[1])
    /\ SettledOp("initialize") /\ LacksRequiredField(done.args[1]) =>
          Failed(done) /\ done.log = <<>>

\* the provider the claim expects invocation id to use for provider input p
C13_Expected(p, id) ==
    CASE p.kind = "string" -> JsonRpcProvider(p, id)
      [] p.kind = "object" /\ p.request -> BrowserProvider(p, id)
      [] OTHER -> p

\* C13: in every initialize invocation the signer is requested from the
\* provider resolved from the config by shape (an RPC provider for a string,
\* a browser provider for an object with a request member, the object itself
\* otherwise) and that same provider is the network handed to
\* createFhevmInstance.
C13_ProviderResolvedOnce ==
    \A i \in {x \in InvocationsOf("initialize") : ~IsNullish(Invocations[x].args[1].provider)} :
        LET inv == Invocations[i]
            p == C13_Expected(inv.args[1].provider, inv.loc.id)
        IN \A k \in 1..Len(inv.log) :
            /\ inv.log[k].fn = "getSigner" => inv.log[k].on = p
            /\ inv.log[k].fn = "createFhevmInstance" => inv.log[k].args[1].network = p

\* a value was supplied for an optional config field
C14_Supplied(x) == ~IsNullish(x) /\ x.value /= <<"">>

C15_RoundTrip ==
    /\ SettledOp("encrypt") /\ done.out.kind = "ok" /\ TypeOrDefault(done.args[2]) = "uint32" =>
          /\ done.out.val = Ciphertext("encrypt32", done.args[1])
          /\ done.out.val \in Handles
    /\ SettledOp("userDecrypt") /\ done.out.kind = "ok" =>
          \E v \in Values :
              /\ done.args[2] = Ciphertext("encrypt32", v)
              /\ done.log[Len(done.log)].fn = "decrypt"
              /\ done.log[Len(done.log)].args[1] = done.args[2]
              /\ done.out.val = v

\* C15 witness: userDecrypt of the ciphertext of 42 returned 42
C15_Witness ==
    /\ SettledOp("userDecrypt")
    /\ done.args[2] = Ciphertext("encrypt32", 42)
    /\ done.out = Ok(42)

\* C17: publicDecrypt first calls the named function on the contract it was
\* given with the positional arguments; wait is called only on the
\* transaction that call resolved with; the operation resolves only after the
\* wait has resolved, with the receipt; when the function call fails there is
\* no wait and the operation rejects with that failure; and no step of
\* publicDecrypt changes a field of the client.
C17_PublicDecrypt ==
    /\ [](\A i \in InvocationsOf("publicDecrypt") :
            LET inv == Invocations[i]
                tx == Tx(inv.args[1], inv.args[2], inv.args[3])
            IN /\ Len(inv.log) \in {1, 2}
               /\ inv.log[1].fn = inv.args[2]
               /\ inv.log[1].on = inv.args[1]
               /\ inv.log[1].args = inv.args[3]
               /\ Len(inv.log) = 2 =>
                     /\ inv.log[1].res = "ok"
                     /\ inv.log[2].fn = "wait" /\ inv.log[2].on = tx
               /\ i = TheSettled /\ ~Failed(done) =>
                     /\ Len(inv.log) = 2 /\ inv.log[2].res = "ok"
                     /\ done.out = Ok(Receipt(tx))
               /\ i = TheSettled /\ inv.log[1].res /= "ok" =>
                     /\ Len(inv.log) = 1
                     /\ done.out = CollabError(inv.args[2], inv.log[1].res))
    /\ [][call' /= call /\ "publicDecrypt" \in {call.op, call'.op} => client' = client]_vars

\* C17 witness: publicDecrypt with one argument returned the receipt after
\* the wait resolved
C17_Witness ==
    /\ SettledOp("publicDecrypt")
    /\ Len(done.args[3]) = 1
    /\ Len(done.log) = 2
    /\ done.log[2].res = "ok"
    /\ done.out.kind = "ok"

\* what an encrypt or userDecrypt invocation, called on an initialized client,
\* does when it runs alone: its collaborator calls depend on its own
\* arguments and on the instance and signer it read when it was called, and
\* its result on the outcomes of its own calls
C16_AsAlone(inv, settled) ==
    IF inv.op = "encrypt"
    THEN IF C5_Label(inv) \in DOMAIN C5_BackendCall
         THEN /\ C5_OneCall(inv)
              /\ settled =>
                    inv.out = IF inv.log[1].res = "ok"
                              THEN Ok(Ciphertext(C5_BackendCall[C5_Label(inv)], inv.args[1]))
                              ELSE CollabError(inv.log[1].fn, inv.log[1].res)
         ELSE settled /\ inv.log = <<>> /\ inv.out = UnsupportedTypeError(C5_Label(inv))
    ELSE /\ C4_Ordered(inv)
         /\ settled =>
               LET last == inv.log[Len(inv.log)]
               IN inv.out = IF Len(inv.log) = 4 /\ last.res = "ok"
                            THEN Ok(inv.args[2].value)
                            ELSE CollabError(last.fn, last.res)

\* C16: with two encrypt / userDecrypt invocations in flight together on an
\* initialized client, in every interleaving of their steps each invocation
\* has issued the calls, with the arguments, and has the result it has when
\* it runs alone; and every step that is not a step of initialize leaves all
\* fields of the client as they are.
C16_ConcurrentCallsIndependent ==
    /\ [](\A k \in {1, 2, TheSettled} :
            Invocations[k].op \in {"encrypt", "userDecrypt"} /\ Invocations[k].init0 =>
                C16_AsAlone(Invocations[k], k = TheSettled))
    /\ [][nInit' = nInit /\ (\A i \in InitIds : inits'[i] = inits[i]) => client' = client]_vars

\* C16 witness: an encrypt has returned its ciphertext while a userDecrypt
\* issued before it is still waiting for the signature
C16_Witness ==
    /\ SettledOp("encrypt") /\ done.out.kind = "ok"
    /\ parked.op = "userDecrypt" /\ parked.pc = "awaitSign"
    /\ client.initialized

\* the run of the effect whose mounted flag is still set, 0 before the mount
C19_Current == prov.nRuns
C19_Pending(r) == prov.mounted /\ C19_Current = r /\ prov.runs[r].pc = "awaitInitialize"

C20_FlagTracksInFlight ==
    hook.flag = (HookInFlight(hook) /= {})

\* C28: whenever initialized is true, provider, signer and instance are all
\* set; so no encrypt or userDecrypt that passed the getInstance guard has hit
\* a null instance or a null signer.
C28_InitializedImpliesFields ==
    /\ client.initialized =>
          client.provider /= Null /\ client.signer /= Null /\ client.instance /= Null
    /\ \A op \in {"encrypt", "userDecrypt"} :
          SettledOp(op) /\ done.init0 /\ Failed(done) => done.out.name /= "TypeError"

\* C28 witness: a second initialize has failed at getSigner on a client that
\* the first one had initialized; the fields of the first are still set
C28_Witness ==
    /\ SettledOp("initialize")
    /\ done.loc.id = 2
    /\ done.out = CollabError("getSigner", "NETWORK_ERROR")
    /\ client.initialized
    /\ client.signer /= Null /\ client.instance /= Null

\* C29: a userDecrypt invocation that passed the getInstance guard holds the
\* instance and the signer the client had in the step that started it; its
\* token request, typed-data construction and decrypt call all go to that
\* instance and its signature request to that signer, whatever initialize has
\* written to the client since.
C29_UserDecryptFixedInstance ==
    /\ [](\A k \in InvocationsOf("userDecrypt") :
            LET inv == Invocations[k]
            IN Len(inv.log) >= 1 =>
                  \A j \in 1..Len(inv.log) :
                      IF inv.log[j].fn = "signTypedData"
                      THEN inv.log[j].on = inv.loc.signer
                      ELSE inv.log[j].on = inv.loc.instance)
    /\ [][call.op = "idle" /\ call'.op = "userDecrypt" /\ parked'.op = parked.op =>
             call'.loc = [instance |-> client.instance, signer |-> client.signer]]_vars

\* C29 witness: a userDecrypt has resolved after all four calls although a
\* later initialize has replaced the client's instance and signer meanwhile
C29_Witness ==
    /\ SettledOp("userDecrypt")
    /\ done.out.kind = "ok"
    /\ done.loc.instance /= client.instance
    /\ done.loc.signer /= client.signer
    /\ done.log[4].on = done.loc.instance

\* C24: on a mounted FhevmProvider, whenever loading is false and client is
\* not null, that client is the one made by the current run of the effect
\* (for the current config), its initialize resolved, and error is null.
C24_ExposedClientIsCurrent ==
    prov.mounted /\ prov.state.loading = FALSE /\ prov.state.client /= Null =>
        /\ prov.state.client = ClientRef(prov.nRuns)
        /\ prov.runs[prov.nRuns].out.kind = "ok"
        /\ prov.state.error = Null

\* C22: a call of the hook's callback that finds the client (the contract
\* and function name) present sets the flag and clears error before it
\* calls the client; a call that fails stores its failure in error and its
\* caller gets that same failure; the step on which a call settles leaves the
\* flag false; and a call that finds the client absent throws, with flag and
\* error as they were and no call to the client.
C22_HookErrorHandling ==
    [][\A c \in CallIds :
          /\ hook.calls[c] = "idle" /\ hook'.calls[c] = "awaitCall" =>
                hook'.error = Null /\ hook'.flag /\ c \in hook'.issued
          /\ hook.calls[c] = "idle" /\ hook'.calls[c] = "notReady" =>
                /\ hook'.flag = hook.flag /\ hook'.error = hook.error
                /\ hook'.issued = hook.issued
                /\ hook'.results[c].kind = "error"
          /\ c \in HookInFlight(hook) /\ hook'.calls[c] = "error" =>
                /\ hook'.results[c].kind = "error"
                /\ hook'.error = hook'.results[c]
                /\ ~hook'.flag
          /\ c \in HookInFlight(hook) /\ hook'.calls[c] = "ok" =>
                hook'.results[c].kind = "ok" /\ ~hook'.flag]_vars

\* C22 witness: the first call failed and stored its failure, the second call
\* has cleared it and is in flight, and a third call found the client absent
C22_Witness ==
    /\ hook.calls = <<"error", "awaitCall", "notReady">>
    /\ hook.results[1] = HookCallError(1)
    /\ hook.error = Null
    /\ hook.flag


\* ---------------------------------------------------------------- C23
\* the requests that complete in this step
C23_InitializeCompletes(r) ==
    /\ prov.runs[r].op = "init"
    /\ prov.runs[r].pc = "awaitInitialize"
    /\ prov'.runs[r].pc = "settled"
C23_GetAddressCompletes(r) ==
    /\ addrHook.runs[r].op = "getAddr"
    /\ addrHook.runs[r].pc = "awaitAddress"
    /\ addrHook'.runs[r].pc = "settled"
\* a request is superseded once a later run of the effect has started (config,
\* resp. client, has changed) or the component has unmounted
C23_InitializeSuperseded(r) == r /= prov.nRuns \/ ~prov.mounted
C23_GetAddressSuperseded(r) == r /= addrHook.nRuns \/ ~addrHook.mounted

\* C23: when the initialize of a superseded run of FhevmProvider's effect
\* completes, with success or with failure, none of client, error, loading
\* changes; when the getAddress of a superseded run of useAddress's effect
\* completes, none of address, error, loading changes.
C23_SupersededNeverWrites ==
    [][ /\ \A r \in RunIds :
              C23_InitializeCompletes(r) /\ C23_InitializeSuperseded(r)
                  => prov'.state = prov.state
        /\ \A r \in AddressRunIds :
              C23_GetAddressCompletes(r) /\ C23_GetAddressSuperseded(r)
                  => addrHook'.state = addrHook.state ]_vars

\* a superseded initialize has failed and a superseded getAddress has
\* succeeded, and neither wrote anything
C23_Witness ==
    /\ \E r \in RunIds : /\ prov.runs[r].op = "init"
                         /\ prov.runs[r].pc = "settled"
                         /\ ~prov.runs[r].wrote
                         /\ prov.runs[r].out.kind = "error"
    /\ \E r \in AddressRunIds :
          /\ addrHook.runs[r].op = "getAddr"
          /\ addrHook.runs[r].pc = "settled"
          /\ ~addrHook.runs[r].wrote
          /\ addrHook.runs[r].out.kind = "ok"


\* ---------------------------------------------------------------- C27
\* an address request for the client the context now holds is in flight
C27_FetchingCurrent ==
    /\ prov.mounted /\ addrHook.mounted
    /\ addrHook.nRuns >= 1
    /\ addrHook.runs[addrHook.nRuns].pc = "awaitAddress"
    /\ addrHook.runs[addrHook.nRuns].client = prov.state.client

\* C27: while the address of the current client is being fetched, useAddress
\* reports loading = true: a consumer never sees loading = false with
\* address = null and error = null during the fetch.
C27_LoadingWhileFetching ==
    C27_FetchingCurrent => addrHook.state.loading


\* ---------------------------------------------------------------- C21
\* the interval that is running is the one set by the last run of the effect
C21_IntervalOfEffect ==
    IF readHook.mounted /\ readHook.effect /= Null /\ readHook.effect.watch
    THEN /\ readHook.timer /= Null
         /\ readHook.timer.inputs = readHook.effect
         /\ readHook.timer.elapsed <= WatchIntervalMs
    ELSE readHook.timer = Null
\* read k is issued in this step by the interval
C21_IssuedByTick(k) ==
    /\ readHook.reads[k].op = "idle"
    /\ readHook'.reads[k].op = "read"
    /\ readHook'.reads[k].by = "tick"

C25_EffectReads == {k \in ReadIds : readHook.reads[k].op = "read" /\ readHook.reads[k].by = "effect"}
\* the hook is mounted with watch = false and the inputs it was mounted with
C25_UnchangedInputs ==
    /\ readHook.mounted
    /\ readHook.changes = 0
    /\ ~readHook.inputs.watch
\* every issued read has settled
C25_AllSettled == \A k \in ReadIds : readHook.reads[k].op = "read" => readHook.reads[k].pc = "settled"
\* a render is pending after which the effect runs again and calls fetchData
C25_EffectWillRun == readHook.dirty /\ EffectDepsChanged(readHook.effect, readHook.inputs)

\* C25: with watch = false and unchanged inputs, the effect issues a single
\* read, and once the issued reads have settled the hook is quiescent: no
\* pending render makes the effect call fetchData again. This holds also when
\* args is a fresh array on every render.
C25_QuiescentAfterRead ==
    C25_UnchangedInputs =>
        /\ Cardinality(C25_EffectReads) <= 1
        /\ readHook.effect /= Null /\ C25_AllSettled => ~C25_EffectWillRun


\* ---------------------------------------------------------------- C26
\* the read issued last
C26_Last == readHook.reads[readHook.nReads]

\* C26: once every issued read of a mounted hook has settled, data and error
\* are those of the read issued last: data is its result when it resolved,
\* error is its error when it rejected. A read issued earlier that settles
\* later does not overwrite them.
C26_ReflectsLastRead ==
    readHook.mounted /\ readHook.nReads >= 1 /\ C25_AllSettled =>
        IF C26_Last.out.kind = "ok"
        THEN readHook.state.data = C26_Last.out.val
        ELSE readHook.state.error = C26_Last.out


\* ---------------------------------------------------------------- C30
\* what a transaction refused by onlySubsidyAuthority ends as
C30_Refused == Revert(farm.state, "Not authorized")
\* the senders other than the authority
C30_Others == Accounts \ {farm.state.subsidyAuthority}

\* C30: subsidyAuthority is the account that deployed the contract, in every
\* state; and in every state a call of startNewDistributionPeriod,
\* calculateSubsidyAmount, requestSubsidyDecryption,
\* completeDistributionPeriod or withdrawUnusedFunds by any other sender,
\* with any arguments, reverts with "Not authorized" and leaves the state as
\* it was.
C30_OnlyAuthorityChangesState ==
    /\ farm.state.subsidyAuthority = Deployer
    /\ \A sender \in C30_Others :
          /\ \A budget \in Budgets, duration \in Durations :
                StartNewDistributionPeriod(farm.state, sender, farm.now, budget, duration) = C30_Refused
          /\ \A farmer \in Accounts :
                /\ CalculateSubsidyAmount(farm.state, sender, farmer) = C30_Refused
                /\ RequestSubsidyDecryption(farm.state, sender, farmer) = C30_Refused
          /\ CompleteDistributionPeriod(farm.state, sender, farm.now) = C30_Refused
          /\ WithdrawUnusedFunds(farm.state, sender) = C30_Refused

\* a call by another sender has just been refused in a state where the
\* authority's calculateSubsidyAmount, requestSubsidyDecryption and
\* completeDistributionPeriod would all have gone through
C30_Witness ==
    /\ farm.last = "Not authorized"
    /\ DuringRegistrationPeriod(farm.state)
    /\ farm.now >= farm.state.distributionPeriods[farm.state.currentDistributionPeriod].endTime
    /\ farm.state.nRequests < MaxRequests
    /\ \E f \in Farmers :
          /\ farm.state.farmers[f].isRegistered
          /\ ~farm.state.farmers[f].hasReceivedSubsidy
          /\ farm.state.encryptedSubsidyAmounts[farm.state.currentDistributionPeriod][f].set


\* ---------------------------------------------------------------- C31
\* the places of registeredFarmers that hold account a
C31_Places(a) ==
    {i \in 1..Len(farm.state.registeredFarmers) : farm.state.registeredFarmers[i] = a}
\* what registerFarmer accepts
C31_Accepts(sender, farmSize, cropYield) ==
    /\ farm.state.distributionPeriods[farm.state.currentDistributionPeriod].isActive
    /\ ~farm.state.distributionPeriods[farm.state.currentDistributionPeriod].distributionCompleted
    /\ ~farm.state.farmers[sender].isRegistered
    /\ farmSize > 0
    /\ cropYield > 0

\* C31: in every state, registerFarmer succeeds exactly when the current
\* period is active and not completed, the sender is not yet registered and
\* farm size and crop yield are positive; then the sender is registered and
\* registeredFarmers is the list as it was with the sender appended; otherwise
\* the call reverts and the state is as it was. An address is in
\* registeredFarmers once when its isRegistered is true and not at all when
\* it is false.
C31_RegisterFarmerConditions ==
    /\ \A sender \in Accounts, data \in FarmData, incomeLevel \in IncomeLevels :
          LET r == RegisterFarmer(farm.state, sender, farm.now, data[1], data[2], incomeLevel)
          IN IF C31_Accepts(sender, data[1], data[2])
             THEN /\ r.status = "ok"
                  /\ r.state.farmers[sender].isRegistered
                  /\ r.state.registeredFarmers = Append(farm.state.registeredFarmers, sender)
                  /\ \A a \in Accounts \ {sender} : r.state.farmers[a] = farm.state.farmers[a]
             ELSE /\ r.status /= "ok"
                  /\ r.state = farm.state
    /\ \A a \in Accounts :
          Cardinality(C31_Places(a)) = IF farm.state.farmers[a].isRegistered THEN 1 ELSE 0

\* both farmers are registered, and a further registerFarmer of one of them
\* has just been refused
C31_Witness ==
    /\ farm.last = "Already registered"
    /\ Len(farm.state.registeredFarmers) = 2
    /\ \A f \in Farmers : farm.state.farmers[f].isRegistered


\* ---------------------------------------------------------------- C32
\* the payouts made while period p was the current one, by their place in
\* the log of SubsidyDistributed events; only positive amounts are paid
C32_PayoutsIn(p) ==
    {i \in 1..Len(farm.distributed) :
        farm.distributed[i].period = p /\ farm.distributed[i].amount > 0}

\* C32: in every reachable state, every distribution period has
\* distributedAmount <= totalBudget, and its beneficiaryCount is the number
\* of payouts with a positive amount made in it.
C32_WithinBudget ==
    \A p \in PeriodIds :
       /\ farm.state.distributionPeriods[p].distributedAmount
             <= farm.state.distributionPeriods[p].totalBudget
       /\ farm.state.distributionPeriods[p].beneficiaryCount = Cardinality(C32_PayoutsIn(p))

\* a period has paid one farmer all of its budget, and the payout to a
\* second farmer has just been refused
C32_Witness ==
    /\ farm.last = "Budget exceeded"
    /\ \E p \in PeriodIds :
          /\ farm.state.distributionPeriods[p].beneficiaryCount = 1
          /\ farm.state.distributionPeriods[p].totalBudget > 0
          /\ farm.state.distributionPeriods[p].distributedAmount
                = farm.state.distributionPeriods[p].totalBudget


\* ---------------------------------------------------------------- C33
\* the positive payouts to farmer f made while period p was the current one
C33_PayoutsTo(f, p) ==
    {i \in C32_PayoutsIn(p) : farm.distributed[i].farmer = f}

\* C33: in every reachable state, every farmer has received at most one
\* positive payout in each distribution period.
C33_OnePayoutPerPeriod ==
    \A f \in Accounts, p \in PeriodIds : Cardinality(C33_PayoutsTo(f, p)) <= 1

\* two decryption requests were made for one farmer in one period; one has
\* been paid, and the callback of the other has just been refused
C33_Witness ==
    /\ farm.last = "Subsidy already received"
    /\ \E f \in Farmers, q1, q2 \in RequestIds :
          /\ q1 /= q2
          /\ farm.requestedIn[q1] = farm.requestedIn[q2]
          /\ farm.requestedIn[q1] = farm.state.currentDistributionPeriod
          /\ farm.state.decryptionRequests[q1] = AddressZero
          /\ farm.state.decryptionRequests[q2] = f
          /\ \E i \in C33_PayoutsTo(f, farm.state.currentDistributionPeriod) :
                farm.distributed[i].requestId = q1


\* ---------------------------------------------------------------- C34
\* C34: every payout is charged to the distribution period that was current
\* when its decryption request was made: the period of each SubsidyDistributed
\* event, whose distributedAmount and beneficiaryCount the payout was added
\* to, is the period of the request it answers.
C34_ChargedToRequestPeriod ==
    \A i \in 1..Len(farm.distributed) :
       farm.distributed[i].period = farm.requestedIn[farm.distributed[i].requestId]

====
